---- MODULE Spec2Model ----
(***************************************************************************)
(* Face tracker: the FaceRegistry (identity registry), the smoothing and   *)
(* projection step applySmoothInterpolation and the detectFaces frame loop *)
(* of the PhotoBooth component.                                            *)
(*                                                                         *)
(* Number representation.  Normalized coordinates and sizes are integers   *)
(* in thousandths (0.15 is 150); times are milliseconds; angles are whole  *)
(* degrees; screen-space values are thousandths of a pixel.  A similarity  *)
(* score is a pair [num, den] standing for num / (1500 * den), den = 0     *)
(* standing for NaN.  A point is <<x, y>>; null / undefined is << >>.      *)
(***************************************************************************)
EXTENDS Integers, Sequences, FiniteSets, TLC

VARIABLES
    trackedFaces,   \* FaceRegistry.trackedFaces: the Map, in insertion order
    nextFaceId,     \* FaceRegistry.nextFaceId
    prevFaceData,   \* prevFaceData.current
    smoothFaces,    \* React state smoothFaces
    now,            \* the clock read by Date.now()
    frameNo,        \* number of operations run so far
    currentFaces,   \* argument of the last call / detector output of the last frame
    results,        \* return value of the last processDetections call
    log,            \* console messages of the last processDetections call
    lastOp,         \* the operation that ran last
    geometry,       \* canvas rectangle and video size at the last frame
    isModelLoaded,  \* React state isModelLoaded
    pendingTimeouts, \* setTimeout callbacks of detectFaces that have not fired yet
    pendingFrames,  \* calls of detectFaces that are due (animation frames requested)
    currentScreen,  \* React state currentScreen
    capturedImage,  \* React state capturedImage: Null or the data URL of the photo
    firebaseUrl,    \* React state firebaseUrl
    capturing,      \* capturePhoto is waiting for html2canvas
    uploads,        \* photos whose uploadToFirebase call has not finished
    resultTimers,   \* pending setTimeout callbacks that show the result screen
    photoNo         \* number of screenshots taken so far

vars == <<trackedFaces, nextFaceId, prevFaceData, smoothFaces, now, frameNo,
          currentFaces, results, log, lastOp, geometry,
          isModelLoaded, pendingTimeouts, pendingFrames,
          currentScreen, capturedImage, firebaseUrl, capturing, uploads, resultTimers,
          photoNo>>

\* The state of the detection loop and the state of the photo flow.
loopVars == <<isModelLoaded, pendingTimeouts, pendingFrames>>

photoVars == <<currentScreen, capturedImage, firebaseUrl, capturing, uploads,
               resultTimers, photoNo>>

----------------------------------------------------------------------------
(* Program constants *)

maxFaces == 5
matchThreshold == 150
maxFramesMissing == 1
maxFaceAge == 2000
FrameDelayMs == 33

smoothingFactorTenths == 2
minMaskSize == 100
maxMaskSize == 800

(* Bounds of the model *)

MaxFrames == 3
MaxSoloFrames == 5
MaxDetections == 2
MaxCrowd == 3
PauseMs == 2500
MaxBurstFrames == 3
\* Photos taken in one run of the photo flow.
MaxPhotos == 3

MaxPoseFrames == 4

----------------------------------------------------------------------------
(* Arithmetic helpers *)

Abs(a) == IF a < 0 THEN -a ELSE a

Max2(a, b) == IF a > b THEN a ELSE b

Min2(a, b) == IF a < b THEN a ELSE b

\* Math.sqrt on the values the model feeds it: every distance between two
\* centers of the model is a whole number of thousandths.
RECURSIVE SqrtBetween(_, _, _)
SqrtBetween(n, lo, hi) ==
    IF lo = hi THEN (IF lo * lo = n THEN lo ELSE CHOOSE r \in {} : r * r = n)
    ELSE LET mid == (lo + hi + 1) \div 2
         IN IF mid * mid <= n THEN SqrtBetween(n, mid, hi) ELSE SqrtBetween(n, lo, mid - 1)

Sqrt(n) == SqrtBetween(n, 0, 2000)

\* Math.atan2(dy, dx) * (180 / Math.PI) on the eye lines the model feeds it.
Atan2Deg(dy, dx) ==
    CASE dy = 0 /\ dx >= 0 -> 0
      [] dy = 0 /\ dx < 0 -> 180
      [] dx > 0 /\ dy = dx -> 45
      [] dx > 0 /\ dy = -dx -> -45

\* Op applied to the value of v, v being evaluated once.
Let(v, Op(_)) == CHOOSE r \in {Op(x) : x \in {v}} : TRUE

RECURSIVE SeqSet(_)
SeqSet(s) == IF s = << >> THEN {} ELSE {Head(s)} \cup SeqSet(Tail(s))

----------------------------------------------------------------------------
(* The detector's output: landmark arrays.  A face reference f stands for  *)
(* one landmark array; Landmarks(f) gives its length and the points at the *)
(* indices the program reads.                                              *)

Null == << >>

KeyIdx == {1, 10, 33, 133, 152, 234, 263, 362, 454}

\* A full 478-point array of a level face centred at (cx, cy) of size sz.
FullFace(cx, cy, sz) ==
    [length |-> 478,
     pts |-> [i \in KeyIdx |->
        CASE i = 33 -> <<cx - 40, cy - 30>>
          [] i = 133 -> <<cx - 20, cy - 30>>
          [] i = 362 -> <<cx + 20, cy - 30>>
          [] i = 263 -> <<cx + 40, cy - 30>>
          [] i = 1 -> <<cx, cy + 20>>
          [] i = 10 -> <<cx, cy - (sz \div 2)>>
          [] i = 152 -> <<cx, cy + (sz \div 2)>>
          [] i = 234 -> <<cx - 80, cy>>
          [] i = 454 -> <<cx + 80, cy>>]]

\* An array too short to hold the eye corners (indices 33 and above).
ShortFace(cx, cy) ==
    [length |-> 11,
     pts |-> [i \in KeyIdx |->
        CASE i = 1 -> <<cx, cy + 20>>
          [] i = 10 -> <<cx, cy - 100>>
          [] OTHER -> Null]]

\* A full array of a face centred at (cx, cy) of size sz whose eye line rises
\* by 45 degrees: the eye centers are (cx - 30, cy - 60) and (cx + 30, cy).
TiltedFace(cx, cy, sz) ==
    [length |-> 478,
     pts |-> [i \in KeyIdx |->
        CASE i = 33 -> <<cx - 40, cy - 70>>
          [] i = 133 -> <<cx - 20, cy - 50>>
          [] i = 362 -> <<cx + 20, cy - 10>>
          [] i = 263 -> <<cx + 40, cy + 10>>
          [] i = 1 -> <<cx, cy + 20>>
          [] i = 10 -> <<cx, cy - (sz \div 2)>>
          [] i = 152 -> <<cx, cy + (sz \div 2)>>
          [] i = 234 -> <<cx - 80, cy>>
          [] i = 454 -> <<cx + 80, cy>>]]

\* A full array of a level face centred at (cx, cy) whose outline is sz high
\* and sz wide.
SquareFace(cx, cy, sz) ==
    [length |-> 478,
     pts |-> [i \in KeyIdx |->
        CASE i = 33 -> <<cx - 40, cy - 30>>
          [] i = 133 -> <<cx - 20, cy - 30>>
          [] i = 362 -> <<cx + 20, cy - 30>>
          [] i = 263 -> <<cx + 40, cy - 30>>
          [] i = 1 -> <<cx, cy + 20>>
          [] i = 10 -> <<cx, cy - (sz \div 2)>>
          [] i = 152 -> <<cx, cy + (sz \div 2)>>
          [] i = 234 -> <<cx - (sz \div 2), cy>>
          [] i = 454 -> <<cx + (sz \div 2), cy>>]]

\* An array in which only the four eye corners are defined, 0.018 above cy.
EyesOnlyFace(cx, cy) ==
    [length |-> 478,
     pts |-> [i \in KeyIdx |->
        CASE i = 33 -> <<cx - 40, cy - 18>>
          [] i = 133 -> <<cx - 20, cy - 18>>
          [] i = 362 -> <<cx + 20, cy - 18>>
          [] i = 263 -> <<cx + 40, cy - 18>>
          [] OTHER -> Null]]

\* An empty array; a null or undefined entry takes the same branches.
EmptyFace == [length |-> 0, pts |-> [i \in KeyIdx |-> Null]]

\* Faces 1..4 are: A at (0.30, 0.40); A2 at (0.38, 0.40), 0.08 from A; C at
\* (0.40, 0.40), 0.10 from A and 0.02 from A2; N, an array with no eye corners.
\* All have size 0.2.  Faces 11..16 are six people standing 0.10 apart.
\* Faces 21..23 are: P at (0.30, 0.40), size 0.2, level; Q at (0.33, 0.44),
\* 0.05 from P, size 0.25, tilted by 45 degrees (Q matches P's track and P
\* Q's); F at (0.60, 0.80), 0.50 from P and 0.45 from Q.  Faces 31..34 are:
\* an empty array; an array with the eye corners only, eye center (0.30, 0.382);
\* an array too short for the eye corners; a full face at (0.32, 0.40).
\* Faces 41..43 are one face at (0.30, 0.40) seen far away (size 0.02), at
\* size 0.2 and close up (size 0.6).  Faces 51..53 are: L at (0.30, 0.40) and
\* R at (0.70, 0.40), both tilted by 45 degrees; M, level, at (0.50, 0.40).
Faces == 1..4

CrowdFaces == 11..16

\* Faces 61..63: one at (0.30, 0.40) with size 0.2, one exactly 0.15 to its
\* right with the same size, one 0.16 to its right with size 0.25.
FarFaces == 61..63

ClampFaces == 41..43

MirrorFaces == 51..53

PoseFaces == 21..23

RaggedFaces == 31..34

Landmarks(f) ==
    CASE f = 1 -> FullFace(300, 400, 200)
      [] f = 2 -> FullFace(380, 400, 200)
      [] f = 3 -> FullFace(400, 400, 200)
      [] f = 4 -> ShortFace(500, 400)
      [] f >= 11 /\ f <= 16 -> FullFace(200 + 100 * (f - 10), 400, 200)
      [] f = 21 -> FullFace(300, 400, 200)
      [] f = 22 -> TiltedFace(330, 440, 250)
      [] f = 23 -> FullFace(600, 800, 200)
      [] f = 31 -> EmptyFace
      [] f = 41 -> SquareFace(300, 400, 20)
      [] f = 42 -> SquareFace(300, 400, 200)
      [] f = 43 -> SquareFace(300, 400, 600)
      [] f = 61 -> SquareFace(300, 400, 200)
      [] f = 62 -> SquareFace(450, 400, 200)
      [] f = 63 -> SquareFace(460, 400, 250)
      [] f = 51 -> TiltedFace(300, 400, 200)
      [] f = 52 -> TiltedFace(700, 400, 200)
      [] f = 53 -> FullFace(500, 400, 200)
      [] f = 32 -> EyesOnlyFace(300, 400)
      [] f = 33 -> ShortFace(500, 400)
      [] f = 34 -> FullFace(320, 400, 200)

----------------------------------------------------------------------------
(* FaceRegistry: geometric helpers *)

Present(lm, i) == lm.pts[i] # Null

\* Mutant: the nose tip is required, without it there is no center.
calculateFaceCenterNoseRequired(lm) ==
    IF lm.length = 0 THEN Null
    ELSE IF ~(Present(lm, 33) /\ Present(lm, 133) /\ Present(lm, 362) /\ Present(lm, 263)
              /\ Present(lm, 1))
    THEN Null
    ELSE
      LET leftEyeCenter == <<(lm.pts[33][1] + lm.pts[133][1]) \div 2,
                             (lm.pts[33][2] + lm.pts[133][2]) \div 2>>
          rightEyeCenter == <<(lm.pts[362][1] + lm.pts[263][1]) \div 2,
                              (lm.pts[362][2] + lm.pts[263][2]) \div 2>>
          eyeCenter == <<(leftEyeCenter[1] + rightEyeCenter[1]) \div 2,
                         (leftEyeCenter[2] + rightEyeCenter[2]) \div 2>>
          eyeToNoseDistance == lm.pts[1][2] - eyeCenter[2]
      IN <<eyeCenter[1], eyeCenter[2] + ((eyeToNoseDistance * 6) \div 10)>>

calculateFaceCenter(lm) ==
    IF lm.length = 0 THEN Null
    ELSE IF ~(Present(lm, 33) /\ Present(lm, 133) /\ Present(lm, 362) /\ Present(lm, 263))
    THEN Null
    ELSE
      LET leftEyeCenter == <<(lm.pts[33][1] + lm.pts[133][1]) \div 2,
                             (lm.pts[33][2] + lm.pts[133][2]) \div 2>>
          rightEyeCenter == <<(lm.pts[362][1] + lm.pts[263][1]) \div 2,
                              (lm.pts[362][2] + lm.pts[263][2]) \div 2>>
          eyeCenter == <<(leftEyeCenter[1] + rightEyeCenter[1]) \div 2,
                         (leftEyeCenter[2] + rightEyeCenter[2]) \div 2>>
          eyeToNoseDistance == IF Present(lm, 1) THEN lm.pts[1][2] - eyeCenter[2] ELSE 30
      IN <<eyeCenter[1], eyeCenter[2] + ((eyeToNoseDistance * 6) \div 10)>>

\* Mutant: the fallback is 200, the pixel default of the overlay, not 0.2.
calculateFaceSizePixelFallback(lm) ==
    IF lm.length = 0 THEN 200000
    ELSE IF ~(Present(lm, 10) /\ Present(lm, 152) /\ Present(lm, 234) /\ Present(lm, 454))
    THEN 200000
    ELSE
      LET height == Abs(lm.pts[152][2] - lm.pts[10][2])
          width == Abs(lm.pts[454][1] - lm.pts[234][1])
      IN Max2(height, width)

calculateFaceSize(lm) ==
    IF lm.length = 0 THEN 200
    ELSE IF ~(Present(lm, 10) /\ Present(lm, 152) /\ Present(lm, 234) /\ Present(lm, 454))
    THEN 200
    ELSE
      LET height == Abs(lm.pts[152][2] - lm.pts[10][2])
          width == Abs(lm.pts[454][1] - lm.pts[234][1])
      IN Max2(height, width)

\* Reading .x of a missing eye corner throws inside the try block: the catch returns 0.
calculateHeadRotation(lm) ==
    IF lm.length = 0 THEN 0
    ELSE IF ~(Present(lm, 33) /\ Present(lm, 133) /\ Present(lm, 362) /\ Present(lm, 263))
    THEN 0
    ELSE
      LET leftEyeCenter == <<(lm.pts[33][1] + lm.pts[133][1]) \div 2,
                             (lm.pts[33][2] + lm.pts[133][2]) \div 2>>
          rightEyeCenter == <<(lm.pts[362][1] + lm.pts[263][1]) \div 2,
                              (lm.pts[362][2] + lm.pts[263][2]) \div 2>>
      IN Atan2Deg(rightEyeCenter[2] - leftEyeCenter[2], rightEyeCenter[1] - leftEyeCenter[1])

\* The element processDetections builds for the landmark array at position index
\* (0-based) of its argument.
Detection(f, index) ==
    Let(Landmarks(f), LAMBDA lm :
        [landmarks |-> f,
         center |-> calculateFaceCenter(lm),
         size |-> calculateFaceSize(lm),
         rotation |-> calculateHeadRotation(lm),
         originalIndex |-> index])

\* currentFaces.map(...).filter(face => face.center !== null)
RECURSIVE newDetectionsFrom(_, _)
newDetectionsFrom(faces, index) ==
    IF faces = << >> THEN << >>
    ELSE Let(Detection(Head(faces), index), LAMBDA d :
             IF d.center # Null
             THEN <<d>> \o newDetectionsFrom(Tail(faces), index + 1)
             ELSE newDetectionsFrom(Tail(faces), index + 1))

----------------------------------------------------------------------------
(* FaceRegistry: matching *)

calculateDistance(face1, face2) ==
    LET dx == face1.center[1] - face2.center[1]
        dy == face1.center[2] - face2.center[2]
    IN CASE dy = 0 -> Abs(dx)      \* the square root of dx * dx
         [] dx = 0 -> Abs(dy)
         [] OTHER -> Sqrt(dx * dx + dy * dy)

\* distanceScore = max(0, 150 - distance) / 150, sizeScore = (m - |s1 - s2|) / m
\* with m = max(s1, s2); the sum 0.7 * distanceScore + 0.3 * sizeScore is
\* (7 * dn * m + 450 * sn) / (1500 * m).  m = 0 gives 0 / 0, NaN.
\* Mutant: the two weights exchanged (0.3 for distance, 0.7 for size).
calculateSimilarityWeightsSwapped(face1, face2) ==
    LET m == Max2(face1.size, face2.size)
        sn == Max2(0, m - Abs(face1.size - face2.size))
    IN Let(calculateDistance(face1, face2), LAMBDA distance :
           [num |-> 3 * Max2(0, matchThreshold - distance) * m + 7 * matchThreshold * sn,
            den |-> m])

\* Mutant: the score is the size score alone.
calculateSimilaritySizeOnly(face1, face2) ==
    LET m == Max2(face1.size, face2.size)
        sn == Max2(0, m - Abs(face1.size - face2.size))
    IN Let(calculateDistance(face1, face2), LAMBDA distance :
           [num |-> 10 * matchThreshold * sn, den |-> m])

calculateSimilarity(face1, face2) ==
    LET m == Max2(face1.size, face2.size)
        sn == Max2(0, m - Abs(face1.size - face2.size))
    IN Let(calculateDistance(face1, face2), LAMBDA distance :
           [num |-> 7 * Max2(0, matchThreshold - distance) * m + 3 * matchThreshold * sn,
            den |-> m])

\* a > b on scores; every comparison with NaN is false.
ScoreGT(a, b) == a.den > 0 /\ b.den > 0 /\ a.num * b.den > b.num * a.den

ScoreZero == [num |-> 0, den |-> 1]

\* 0.6 = 900 / 1500
MinSimilarity == [num |-> 900, den |-> 1]

\* Mutant: the loop stops at the first track whose score is above 0.6.
RECURSIVE findFirstMatchFrom(_, _, _, _, _)
findFirstMatchFrom(newFace, tracks, i, best, bestScore) ==
    IF i > Len(tracks) THEN best
    ELSE Let(calculateSimilarity(newFace, tracks[i]), LAMBDA similarity :
             IF ScoreGT(similarity, MinSimilarity)
             THEN i
             ELSE findFirstMatchFrom(newFace, tracks, i + 1, best, bestScore))

\* The loop of findBestMatch over tracks i..Len(tracks); best is the index of
\* bestMatch (0 for null).
RECURSIVE findBestMatchFrom(_, _, _, _, _)
findBestMatchFrom(newFace, tracks, i, best, bestScore) ==
    IF i > Len(tracks) THEN best
    ELSE Let(calculateSimilarity(newFace, tracks[i]), LAMBDA similarity :
             IF ScoreGT(similarity, bestScore) /\ ScoreGT(similarity, MinSimilarity)
             THEN findBestMatchFrom(newFace, tracks, i + 1, i, similarity)
             ELSE findBestMatchFrom(newFace, tracks, i + 1, best, bestScore))

findBestMatch(newFace, tracks) == findBestMatchFrom(newFace, tracks, 1, 0, ScoreZero)

usedMasks(tracks) == {tracks[i].maskNumber : i \in 1..Len(tracks)}

\* Mutant: the slot is the number of tracks plus one.
getNextMaskNumberBySize(tracks) == Len(tracks) + 1

\* Mutant: with every slot taken the last slot is returned, not the first.
getNextMaskNumberFallsBackToLast(tracks) ==
    IF \E i \in 1..maxFaces : i \notin usedMasks(tracks)
    THEN CHOOSE i \in 1..maxFaces :
            i \notin usedMasks(tracks) /\ \A j \in 1..(i - 1) : j \in usedMasks(tracks)
    ELSE maxFaces

getNextMaskNumber(tracks) ==
    IF \E i \in 1..maxFaces : i \notin usedMasks(tracks)
    THEN CHOOSE i \in 1..maxFaces :
            i \notin usedMasks(tracks) /\ \A j \in 1..(i - 1) : j \in usedMasks(tracks)
    ELSE 1

----------------------------------------------------------------------------
(* FaceRegistry.processDetections *)

\* Mutant: the mask is taken from the detection's position in the frame.
UpdateTrackedFaceMaskByIndex(trackedFace, newFace, t) ==
    [trackedFace EXCEPT !.center = newFace.center,
                        !.size = newFace.size,
                        !.rotation = newFace.rotation,
                        !.landmarks = newFace.landmarks,
                        !.framesMissing = 0,
                        !.lastSeen = t,
                        !.maskNumber = newFace.originalIndex + 1]

\* Mutant: the match also restarts the track's age.
UpdateTrackedFaceRestartsAge(trackedFace, newFace, t) ==
    [trackedFace EXCEPT !.center = newFace.center,
                        !.size = newFace.size,
                        !.rotation = newFace.rotation,
                        !.landmarks = newFace.landmarks,
                        !.framesMissing = 0,
                        !.lastSeen = t,
                        !.firstSeen = t]

\* The match branch: the tracked face after the update.
UpdateTrackedFace(trackedFace, newFace, t) ==
    [trackedFace EXCEPT !.center = newFace.center,
                        !.size = newFace.size,
                        !.rotation = newFace.rotation,
                        !.landmarks = newFace.landmarks,
                        !.framesMissing = 0,
                        !.lastSeen = t]

\* The new-face branch: the entry put into the Map.
NewTrackedFace(newFace, faceId, maskNumber, t) ==
    [faceId |-> faceId,
     maskNumber |-> maskNumber,
     center |-> newFace.center,
     size |-> newFace.size,
     rotation |-> newFace.rotation,
     landmarks |-> newFace.landmarks,
     framesMissing |-> 0,
     firstSeen |-> t,
     lastSeen |-> t]

\* Mutant: the detection is pushed as it is, faceId and maskNumber undefined (0).
TaggedResultWithoutTags(newFace, faceId, maskNumber) ==
    [landmarks |-> newFace.landmarks,
     center |-> newFace.center,
     size |-> newFace.size,
     rotation |-> newFace.rotation,
     originalIndex |-> newFace.originalIndex,
     faceId |-> 0,
     maskNumber |-> 0]

\* { ...newFace, faceId, maskNumber }
TaggedResult(newFace, faceId, maskNumber) ==
    [landmarks |-> newFace.landmarks,
     center |-> newFace.center,
     size |-> newFace.size,
     rotation |-> newFace.rotation,
     originalIndex |-> newFace.originalIndex,
     faceId |-> faceId,
     maskNumber |-> maskNumber]

LogEntry(ev, maskNumber, faceId) == [ev |-> ev, maskNumber |-> maskNumber, faceId |-> faceId]

\* Mutant: a track matched earlier in the call is not matched again.
MatchOneExclusive(st, newFace, t) ==
    LET Branch(match) ==
       IF match # 0 /\ st.tracked[match].faceId \notin st.matchedFaceIds
       THEN LET trackedFace == UpdateTrackedFace(st.tracked[match], newFace, t)
            IN [st EXCEPT !.tracked = [st.tracked EXCEPT ![match] = trackedFace],
                          !.matchedFaceIds = @ \cup {trackedFace.faceId},
                          !.results = Append(@, TaggedResult(newFace, trackedFace.faceId,
                                                             trackedFace.maskNumber))]
       ELSE LET maskNumber == getNextMaskNumber(st.tracked)
                faceId == st.nextFaceId
            IN [st EXCEPT !.tracked = Append(@, NewTrackedFace(newFace, faceId, maskNumber, t)),
                          !.nextFaceId = @ + 1,
                          !.results = Append(@, TaggedResult(newFace, faceId, maskNumber)),
                          !.log = Append(@, LogEntry("new", maskNumber, faceId))]
    IN Let(findBestMatch(newFace, st.tracked), Branch)

\* Mutant: a track created in the call is not matched by its later detections.
MatchOneSkipsCreated(st, newFace, t) ==
    LET created == {st.log[n].faceId : n \in {m \in 1..Len(st.log) : st.log[m].ev = "new"}}
        Branch(match) ==
       IF match # 0 /\ st.tracked[match].faceId \notin created
       THEN LET trackedFace == UpdateTrackedFace(st.tracked[match], newFace, t)
            IN [st EXCEPT !.tracked = [st.tracked EXCEPT ![match] = trackedFace],
                          !.matchedFaceIds = @ \cup {trackedFace.faceId},
                          !.results = Append(@, TaggedResult(newFace, trackedFace.faceId,
                                                             trackedFace.maskNumber))]
       ELSE LET maskNumber == getNextMaskNumber(st.tracked)
                faceId == st.nextFaceId
            IN [st EXCEPT !.tracked = Append(@, NewTrackedFace(newFace, faceId, maskNumber, t)),
                          !.nextFaceId = @ + 1,
                          !.results = Append(@, TaggedResult(newFace, faceId, maskNumber)),
                          !.log = Append(@, LogEntry("new", maskNumber, faceId))]
    IN Let(findBestMatch(newFace, st.tracked), Branch)

\* One iteration of the matching loop.  st holds the registry and the call's
\* locals: tracked, nextFaceId, matchedFaceIds, results, log.
MatchOne(st, newFace, t) ==
    LET Branch(match) ==
       IF match # 0
       THEN LET trackedFace == UpdateTrackedFace(st.tracked[match], newFace, t)
            IN [st EXCEPT !.tracked = [st.tracked EXCEPT ![match] = trackedFace],
                          !.matchedFaceIds = @ \cup {trackedFace.faceId},
                          !.results = Append(@, TaggedResult(newFace, trackedFace.faceId,
                                                             trackedFace.maskNumber))]
       ELSE LET maskNumber == getNextMaskNumber(st.tracked)
                faceId == st.nextFaceId
            IN [st EXCEPT !.tracked = Append(@, NewTrackedFace(newFace, faceId, maskNumber, t)),
                          !.nextFaceId = @ + 1,
                          !.results = Append(@, TaggedResult(newFace, faceId, maskNumber)),
                          !.log = Append(@, LogEntry("new", maskNumber, faceId))]
    IN Let(findBestMatch(newFace, st.tracked), Branch)

\* Mutant: the detections are handled from the last to the first.
RECURSIVE MatchAllLastFirst(_, _, _)
MatchAllLastFirst(st, newDetections, t) ==
    IF newDetections = << >> THEN st
    ELSE Let(MatchOne(st, newDetections[Len(newDetections)], t),
             LAMBDA next : MatchAllLastFirst(next, SubSeq(newDetections, 1,
                                                          Len(newDetections) - 1), t))

RECURSIVE MatchAll(_, _, _)
MatchAll(st, newDetections, t) ==
    IF newDetections = << >> THEN st
    ELSE Let(MatchOne(st, Head(newDetections), t),
             LAMBDA next : MatchAll(next, Tail(newDetections), t))

\* Mutant: one more missed frame is tolerated.
ShouldRemoveMissingLate(framesMissing) == framesMissing > maxFramesMissing + 1

\* Mutant: missed frames are counted and never lead to removal.
ShouldRemoveMissingNever(framesMissing) == FALSE

ShouldRemoveMissing(framesMissing) == framesMissing > maxFramesMissing

\* Mutant: the age is counted from the first sighting.
IsStaleByFirstSeen(trackedFace, currentTime) ==
    currentTime - trackedFace.firstSeen > maxFaceAge

IsStale(trackedFace, currentTime) == currentTime - trackedFace.lastSeen > maxFaceAge

\* The cleanup loop over tracks i..Len: the missing-frame counts are updated in
\* place, facesToRemove and the log grow.
RECURSIVE CleanupFrom(_, _, _)
CleanupFrom(st, i, currentTime) ==
    IF i > Len(st.tracked) THEN st
    ELSE
      LET old == st.tracked[i]
          unmatched == old.faceId \notin st.matchedFaceIds
          trackedFace == IF unmatched THEN [old EXCEPT !.framesMissing = @ + 1] ELSE old
          left == unmatched /\ ShouldRemoveMissing(trackedFace.framesMissing)
          stale == IsStale(trackedFace, currentTime)
          leftId == IF left THEN <<trackedFace.faceId>> ELSE << >>
          staleId == IF stale THEN <<trackedFace.faceId>> ELSE << >>
          leftLog == IF left
                     THEN <<LogEntry("left", trackedFace.maskNumber, trackedFace.faceId)>>
                     ELSE << >>
          staleLog == IF stale
                      THEN <<LogEntry("stale", trackedFace.maskNumber, trackedFace.faceId)>>
                      ELSE << >>
      IN Let([st EXCEPT !.tracked = [st.tracked EXCEPT ![i] = trackedFace],
                        !.facesToRemove = @ \o leftId \o staleId,
                        !.log = @ \o leftLog \o staleLog],
             LAMBDA next : CleanupFrom(next, i + 1, currentTime))

\* facesToRemove.forEach(faceId => this.trackedFaces.delete(faceId))
RECURSIVE DeleteAll(_, _)
DeleteAll(tracks, ids) ==
    IF tracks = << >> THEN << >>
    ELSE IF Head(tracks).faceId \in ids THEN DeleteAll(Tail(tracks), ids)
    ELSE <<Head(tracks)>> \o DeleteAll(Tail(tracks), ids)

\* Mutant: [] is returned for an empty argument, the Map is left as it is.
ClearIfNoFacesKeepsTracks(st, faces) ==
    IF Len(faces) = 0 THEN [st EXCEPT !.results = << >>] ELSE st

\* Mutant: clearing the Map also restarts the counter.
ClearIfNoFacesRestartsCounter(st, faces) ==
    IF Len(faces) = 0
    THEN [st EXCEPT !.tracked = << >>,
                    !.nextFaceId = 1,
                    !.results = << >>,
                    !.log = IF Len(st.tracked) > 0
                            THEN Append(@, LogEntry("clear", 0, 0)) ELSE @]
    ELSE st

\* The last block: with an empty argument everything is cleared and [] returned.
ClearIfNoFaces(st, faces) ==
    IF Len(faces) = 0
    THEN [st EXCEPT !.tracked = << >>,
                    !.results = << >>,
                    !.log = IF Len(st.tracked) > 0
                            THEN Append(@, LogEntry("clear", 0, 0)) ELSE @]
    ELSE st

\* The whole call on registry (tracks, nextId) with argument faces at time t.
processDetections(tracks, nextId, faces, t) ==
    LET st0 == [tracked |-> tracks, nextFaceId |-> nextId, matchedFaceIds |-> {},
                results |-> << >>, log |-> << >>, facesToRemove |-> << >>]
        Matched(st) == Let(newDetectionsFrom(faces, 0),
                           LAMBDA newDetections : MatchAll(st, newDetections, t))
        Counted(st) == CleanupFrom(st, 1, t)
        Removed(st) == [st EXCEPT !.tracked = DeleteAll(@, SeqSet(st.facesToRemove))]
        Cleared(st) == ClearIfNoFaces(st, faces)
    IN Let(Let(Let(Let(st0, Matched), Counted), Removed), Cleared)

\* Mutant: the first definition of reset() (the Map is cleared, the counter kept).
resetFirstDefinition(tracks, nextId) == [tracked |-> << >>, nextFaceId |-> nextId]

\* The method in force is the second definition of reset(): a class body's later
\* method of the same name replaces the earlier one.
resetRegistry(tracks, nextId) == [tracked |-> << >>, nextFaceId |-> 1]

----------------------------------------------------------------------------
(* applySmoothInterpolation *)

\* canvasRect width and height, video.videoWidth and video.videoHeight, in pixels.
Geometries == {[cw |-> 1280, ch |-> 720, vw |-> 1920, vh |-> 1080]}

\* A larger canvas of the same shape, on which every blend of the poses of
\* PoseFaces is a whole number of thousandths of a pixel.
PoseGeometries == {[cw |-> 2000, ch |-> 1125, vw |-> 1920, vh |-> 1080]}

\* Canvases and videos of several shapes: same aspect ratio; canvas narrower
\* than the video; canvas wider than the video; an old 4:3 camera on a square
\* canvas; a portrait video on a landscape canvas.
FitGeometries ==
    {[cw |-> 1280, ch |-> 720, vw |-> 1920, vh |-> 1080],
     [cw |-> 1000, ch |-> 900, vw |-> 1920, vh |-> 1080],
     [cw |-> 1600, ch |-> 450, vw |-> 1920, vh |-> 1080],
     [cw |-> 480, ch |-> 480, vw |-> 640, vh |-> 480],
     [cw |-> 1080, ch |-> 720, vw |-> 1080, vh |-> 1920]}

\* A canvas narrower than the video: the height fills it, the width is cropped
\* (displayed width 1600, 300 pixels cut off on each side).
MirrorGeometries == {[cw |-> 1000, ch |-> 900, vw |-> 1920, vh |-> 1080]}

\* object-fit: cover.  Displayed sizes in pixels, offsets in thousandths of a pixel.
\* Mutant: the comparison is the other way round, the video is fitted inside
\* the rectangle.
CoverFitContain(g) ==
    IF g.vw * g.ch < g.cw * g.vh
    THEN LET displayedVideoWidth == (g.ch * g.vw) \div g.vh
         IN [width |-> displayedVideoWidth, height |-> g.ch,
             offsetX |-> ((displayedVideoWidth - g.cw) * 1000) \div 2, offsetY |-> 0]
    ELSE LET displayedVideoHeight == (g.cw * g.vh) \div g.vw
         IN [width |-> g.cw, height |-> displayedVideoHeight,
             offsetX |-> 0, offsetY |-> ((displayedVideoHeight - g.ch) * 1000) \div 2]

CoverFit(g) ==
    IF g.vw * g.ch > g.cw * g.vh
    THEN LET displayedVideoWidth == (g.ch * g.vw) \div g.vh
         IN [width |-> displayedVideoWidth, height |-> g.ch,
             offsetX |-> ((displayedVideoWidth - g.cw) * 1000) \div 2, offsetY |-> 0]
    ELSE LET displayedVideoHeight == (g.cw * g.vh) \div g.vw
         IN [width |-> g.cw, height |-> displayedVideoHeight,
             offsetX |-> 0, offsetY |-> ((displayedVideoHeight - g.ch) * 1000) \div 2]

\* Mutant: the mask size is not clamped.
RawPoseUnclamped(faceData, g) ==
    LET fit == CoverFit(g)
        mirroredX == 1000 - faceData.center[1]
        baseMaskSize == (faceData.size * fit.height * 25) \div 10
    IN [x |-> mirroredX * fit.width - fit.offsetX,
        y |-> faceData.center[2] * fit.height - fit.offsetY,
        rotation |-> -(faceData.rotation * 1000),
        size |-> baseMaskSize]

\* Mutant: the pose is not mirrored.
RawPoseUnmirrored(faceData, g) ==
    LET fit == CoverFit(g)
        baseMaskSize == (faceData.size * fit.height * 25) \div 10
    IN [x |-> faceData.center[1] * fit.width - fit.offsetX,
        y |-> faceData.center[2] * fit.height - fit.offsetY,
        rotation |-> faceData.rotation * 1000,
        size |-> Max2(minMaskSize * 1000, Min2(maxMaskSize * 1000, baseMaskSize))]

\* pixelX, pixelY, mirroredRotation, scaledMaskSize of one tracked detection.
RawPose(faceData, g) ==
    LET fit == CoverFit(g)
        mirroredX == 1000 - faceData.center[1]
        baseMaskSize == (faceData.size * fit.height * 25) \div 10
    IN [x |-> mirroredX * fit.width - fit.offsetX,
        y |-> faceData.center[2] * fit.height - fit.offsetY,
        rotation |-> -(faceData.rotation * 1000),
        size |-> Max2(minMaskSize * 1000, Min2(maxMaskSize * 1000, baseMaskSize))]

\* Mutant: the factor is ignored, the blend goes half of the way.
lerpHalfway(a, b, t) == a + (b - a) \div 2

\* Mutant: the blend starts from the new value and moves towards the old one.
lerpFromTarget(a, b, t) == b + ((a - b) * t) \div 10

\* lerp(a, b, t) with t in tenths: exact whenever (b - a) * t is a multiple of
\* ten thousandths, rounded down to a thousandth otherwise.
lerp(a, b, t) == a + ((b - a) * t) \div 10

\* prevFaceData.current.find(data => data.faceId === faceId): index, 0 for undefined
RECURSIVE findPrevFrom(_, _, _)
findPrevFrom(prev, faceId, i) ==
    IF i > Len(prev) THEN 0
    ELSE IF prev[i].faceId = faceId THEN i
    ELSE findPrevFrom(prev, faceId, i + 1)

SmoothData(faceData, prev, g) ==
    LET raw == RawPose(faceData, g)
        p == findPrevFrom(prev, faceData.faceId, 1)
    IN IF p # 0
       THEN [x |-> lerp(prev[p].x, raw.x, smoothingFactorTenths),
             y |-> lerp(prev[p].y, raw.y, smoothingFactorTenths),
             rotation |-> lerp(prev[p].rotation, raw.rotation, smoothingFactorTenths),
             size |-> lerp(prev[p].size, raw.size, smoothingFactorTenths),
             maskNumber |-> faceData.maskNumber,
             faceId |-> faceData.faceId]
       ELSE [x |-> raw.x, y |-> raw.y, rotation |-> raw.rotation, size |-> raw.size,
             maskNumber |-> faceData.maskNumber, faceId |-> faceData.faceId]

\* Mutant: with nothing tracked the poses of the last frame are shown again.
newSmoothFacesHeld(tracked, prev, g) ==
    IF tracked = << >>
    THEN [i \in 1..Len(prev) |->
            [x |-> prev[i].x, y |-> prev[i].y, rotation |-> prev[i].rotation,
             size |-> prev[i].size, maskNumber |-> 1, faceId |-> prev[i].faceId]]
    ELSE [i \in 1..Len(tracked) |-> SmoothData(tracked[i], prev, g)]

\* trackedFaces.map(...).filter(face => face !== null)
RECURSIVE newSmoothFacesFrom(_, _, _)
newSmoothFacesFrom(tracked, prev, g) ==
    IF tracked = << >> THEN << >>
    ELSE LET rest == newSmoothFacesFrom(Tail(tracked), prev, g)
         IN IF Head(tracked).center = Null THEN rest
            ELSE <<SmoothData(Head(tracked), prev, g)>> \o rest

\* The cache written for the next frame.
NextPrevFaceData(tracked, newSmoothFaces) ==
    IF Len(tracked) = 0 THEN << >>
    ELSE [i \in 1..Len(newSmoothFaces) |->
            [faceId |-> newSmoothFaces[i].faceId,
             x |-> newSmoothFaces[i].x,
             y |-> newSmoothFaces[i].y,
             rotation |-> newSmoothFaces[i].rotation,
             size |-> newSmoothFaces[i].size]]

\* The state change of applySmoothInterpolation(faces) at time t.
applySmoothInterpolation(faces, g, t) ==
    \E r \in {processDetections(trackedFaces, nextFaceId, faces, t)} :
    \E newSmoothFaces \in {newSmoothFacesFrom(r.results, prevFaceData, g)} :
       /\ trackedFaces' = r.tracked
       /\ nextFaceId' = r.nextFaceId
       /\ results' = r.results
       /\ log' = r.log
       /\ prevFaceData' = NextPrevFaceData(r.results, newSmoothFaces)
       /\ smoothFaces' = newSmoothFaces

----------------------------------------------------------------------------
(* Inputs *)

\* The time from one operation to the next: one tick of the frame loop, or a
\* pause (the video element absent or not ready) longer than maxFaceAge.
Delays == {FrameDelayMs, PauseMs}

\* Detector outputs: up to n different landmark arrays of S, in any order.
SeqsUpTo(S, n) == UNION {[1..k -> S] : k \in 0..n}

Injective(s) == \A i, j \in 1..Len(s) : i # j => s[i] # s[j]

Increasing(s) == \A i, j \in 1..Len(s) : i < j => s[i] < s[j]

Frames == {s \in SeqsUpTo(Faces, MaxDetections) : Injective(s)}

SoloFrames == SeqsUpTo(Faces, 1)

CrowdFrames == {s \in SeqsUpTo(CrowdFaces, MaxCrowd) : Increasing(s)}

\* Any run of neighbours out of the six people, the whole row included.
BurstFrames ==
    {[k \in 1..n |-> 10 + first + k - 1] : first \in 1..6, n \in 0..6} \cap Seq(CrowdFaces)

PoseFrames == SeqsUpTo(PoseFaces, 1)

FarFrames == {s \in SeqsUpTo(FarFaces, MaxDetections) : Injective(s)}

ClampFrames == SeqsUpTo(ClampFaces, 1)

MirrorFrames == {s \in SeqsUpTo(MirrorFaces, MaxDetections) : Injective(s)}

RaggedFrames == {s \in SeqsUpTo(RaggedFaces, MaxDetections) : Injective(s)}

----------------------------------------------------------------------------
(* Operations *)

\* useState(''), the placeholder of uploadToFirebase's catch, and the download
\* URL of the n-th photo.
NoUrl == ""

PlaceholderUrl == "https://placeholder-image-url.com/photo.png"

DownloadUrl(n) ==
    <<"photos/photo-1.png", "photos/photo-2.png", "photos/photo-3.png",
      "photos/photo-4.png">>[n]

\* The data URL of the n-th screenshot.
ImageData(n) == <<"data:image/png", n>>

Init ==
    /\ trackedFaces = << >>
    /\ nextFaceId = 1
    /\ prevFaceData = << >>
    /\ smoothFaces = << >>
    /\ now = 0
    /\ frameNo = 0
    /\ currentFaces = << >>
    /\ results = << >>
    /\ log = << >>
    /\ lastOp = "init"
    /\ geometry = Null
    /\ isModelLoaded = FALSE
    /\ pendingTimeouts = 0
    /\ pendingFrames = 0
    /\ currentScreen = "camera"
    /\ capturedImage = Null
    /\ firebaseUrl = NoUrl
    /\ capturing = FALSE
    /\ uploads = {}
    /\ resultTimers = 0
    /\ photoNo = 0

\* A call of applySmoothInterpolation(faces), dt after the operation before it.
ApplyCall(faces, g, dt) ==
    /\ now' = now + dt
    /\ frameNo' = frameNo + 1
    /\ currentFaces' = faces
    /\ lastOp' = "applySmoothInterpolation"
    /\ geometry' = g
    /\ UNCHANGED <<loopVars, photoVars>>
    /\ applySmoothInterpolation(faces, g, now + dt)

\* faceRegistryRef.current.reset(), as the effect cleanup calls it.
ResetCall ==
    /\ trackedFaces' = resetRegistry(trackedFaces, nextFaceId).tracked
    /\ nextFaceId' = resetRegistry(trackedFaces, nextFaceId).nextFaceId
    /\ lastOp' = "reset"
    /\ pendingFrames' = 0      \* cancelAnimationFrame(animationFrameRef.current)
    /\ UNCHANGED <<prevFaceData, smoothFaces, now, frameNo, currentFaces, results, log,
                   geometry, isModelLoaded, pendingTimeouts, photoVars>>

\* setIsModelLoaded(true) and the effect that follows it: the clean-up of the
\* effect's earlier run, then the first call of detectFaces is due.
StartDetection ==
    /\ ~isModelLoaded
    /\ isModelLoaded' = TRUE
    /\ trackedFaces' = resetRegistry(trackedFaces, nextFaceId).tracked
    /\ nextFaceId' = resetRegistry(trackedFaces, nextFaceId).nextFaceId
    /\ pendingFrames' = 1
    /\ lastOp' = "effect"
    /\ UNCHANGED <<prevFaceData, smoothFaces, now, frameNo, currentFaces, results, log,
                   geometry, pendingTimeouts, photoVars>>

\* The end of every call of detectFaces: the call that ran is no longer due
\* and a timeout is set.
ScheduleNext ==
    /\ pendingFrames > 0
    /\ pendingFrames' = pendingFrames - 1
    /\ pendingTimeouts' = pendingTimeouts + 1
    /\ UNCHANGED isModelLoaded

\* The timeout callback: requestAnimationFrame(detectFaces).
LoopTimeoutFires ==
    /\ pendingTimeouts > 0
    /\ pendingTimeouts' = pendingTimeouts - 1
    /\ pendingFrames' = pendingFrames + 1
    /\ UNCHANGED <<trackedFaces, nextFaceId, prevFaceData, smoothFaces, now, frameNo,
                   currentFaces, results, log, lastOp, geometry, isModelLoaded, photoVars>>

\* One iteration of detectFaces in which the detector ran and returned faces.
DetectFaces(faces, g, dt) ==
    /\ isModelLoaded
    /\ ScheduleNext
    /\ geometry' = g
    /\ UNCHANGED photoVars
    /\ now' = now + dt
    /\ frameNo' = frameNo + 1
    /\ currentFaces' = faces
    /\ lastOp' = "detectFaces"
    /\ IF Len(faces) > 0
       THEN applySmoothInterpolation(faces, g, now + dt)
       ELSE /\ smoothFaces' = << >>
            /\ UNCHANGED <<trackedFaces, nextFaceId, prevFaceData, results, log>>

\* An iteration of detectFaces that does nothing: the video element, the
\* detector or the video dimensions are not there yet.
DetectSkipped ==
    /\ ScheduleNext
    /\ lastOp' = "detectFaces skipped"
    /\ UNCHANGED <<trackedFaces, nextFaceId, prevFaceData, smoothFaces, now, frameNo,
                   currentFaces, results, log, geometry, photoVars>>

\* Mutant: the timeout is set inside the try block, an exception skips it.
DetectThrewStopsLoop ==
    /\ isModelLoaded
    /\ pendingFrames > 0
    /\ pendingFrames' = pendingFrames - 1
    /\ lastOp' = "detectFaces threw"
    /\ UNCHANGED <<trackedFaces, nextFaceId, prevFaceData, smoothFaces, now, frameNo,
                   currentFaces, results, log, geometry, isModelLoaded, pendingTimeouts,
                   photoVars>>

\* An iteration in which drawMirroredVideo or detectForVideo throws: the catch
\* block logs the error, nothing has been written.
DetectThrewInDetection ==
    /\ isModelLoaded
    /\ ScheduleNext
    /\ lastOp' = "detectFaces threw"
    /\ UNCHANGED <<trackedFaces, nextFaceId, prevFaceData, smoothFaces, now, frameNo,
                   currentFaces, results, log, geometry, photoVars>>

\* An iteration in which applySmoothInterpolation throws while it maps the
\* tracked faces: processDetections has run, the cache and the pose list have
\* not been written.
DetectThrewInSmoothing(faces, dt) ==
    /\ isModelLoaded
    /\ ScheduleNext
    /\ Len(faces) > 0
    /\ now' = now + dt
    /\ frameNo' = frameNo + 1
    /\ currentFaces' = faces
    /\ lastOp' = "detectFaces threw"
    /\ \E r \in {processDetections(trackedFaces, nextFaceId, faces, now + dt)} :
          /\ Len(r.results) > 0
          /\ trackedFaces' = r.tracked
          /\ nextFaceId' = r.nextFaceId
          /\ results' = r.results
          /\ log' = r.log
    /\ UNCHANGED <<prevFaceData, smoothFaces, geometry, photoVars>>

takeNewPhoto ==
    /\ capturedImage' = Null
    /\ firebaseUrl' = NoUrl
    /\ trackedFaces' = resetRegistry(trackedFaces, nextFaceId).tracked
    /\ nextFaceId' = resetRegistry(trackedFaces, nextFaceId).nextFaceId
    /\ smoothFaces' = << >>
    /\ currentScreen' = "camera"
    /\ lastOp' = "takeNewPhoto"
    /\ UNCHANGED <<prevFaceData, now, frameNo, currentFaces, results, log, geometry,
                   loopVars, capturing, uploads, resultTimers, photoNo>>

\* The "take photo" button of the camera screen; the countdown starts.
startPhotoCapture ==
    /\ currentScreen = "camera"
    /\ currentScreen' = "countdown"
    /\ lastOp' = "startPhotoCapture"
    /\ UNCHANGED <<trackedFaces, nextFaceId, prevFaceData, smoothFaces, now, frameNo,
                   currentFaces, results, log, geometry, loopVars,
                   capturedImage, firebaseUrl, capturing, uploads, resultTimers, photoNo>>

\* capturePhoto, called when the countdown has run down, up to its await.
capturePhoto ==
    /\ currentScreen = "countdown"
    /\ currentScreen' = "loading"
    /\ capturing' = TRUE
    /\ lastOp' = "capturePhoto"
    /\ UNCHANGED <<trackedFaces, nextFaceId, prevFaceData, smoothFaces, now, frameNo,
                   currentFaces, results, log, geometry, loopVars,
                   capturedImage, firebaseUrl, uploads, resultTimers, photoNo>>

\* Mutant: the result screen is shown by the upload when it has succeeded.
CaptureSucceedsThenWaits ==
    /\ capturing
    /\ capturing' = FALSE
    /\ photoNo' = photoNo + 1
    /\ capturedImage' = ImageData(photoNo + 1)
    /\ uploads' = uploads \cup {photoNo + 1}
    /\ lastOp' = "capturePhoto done"
    /\ UNCHANGED <<trackedFaces, nextFaceId, prevFaceData, smoothFaces, now, frameNo,
                   currentFaces, results, log, geometry, loopVars,
                   currentScreen, firebaseUrl, resultTimers>>

\* html2canvas has resolved: the rest of capturePhoto's try block.  The image
\* is stored, its upload is started and the timeout for the result screen set.
CaptureSucceeds ==
    /\ capturing
    /\ capturing' = FALSE
    /\ photoNo' = photoNo + 1
    /\ capturedImage' = ImageData(photoNo + 1)
    /\ uploads' = uploads \cup {photoNo + 1}
    /\ resultTimers' = resultTimers + 1
    /\ lastOp' = "capturePhoto done"
    /\ UNCHANGED <<trackedFaces, nextFaceId, prevFaceData, smoothFaces, now, frameNo,
                   currentFaces, results, log, geometry, loopVars,
                   currentScreen, firebaseUrl>>

\* The capture area is missing or html2canvas or toDataURL throws: the catch
\* block of capturePhoto.
CaptureFails ==
    /\ capturing
    /\ capturing' = FALSE
    /\ currentScreen' = "camera"
    /\ lastOp' = "capturePhoto failed"
    /\ UNCHANGED <<trackedFaces, nextFaceId, prevFaceData, smoothFaces, now, frameNo,
                   currentFaces, results, log, geometry, loopVars,
                   capturedImage, firebaseUrl, uploads, resultTimers, photoNo>>

\* The timeout set by capturePhoto, 1500 ms after the capture.
ResultTimerFires ==
    /\ resultTimers > 0
    /\ resultTimers' = resultTimers - 1
    /\ currentScreen' = "result"
    /\ lastOp' = "result timeout"
    /\ UNCHANGED <<trackedFaces, nextFaceId, prevFaceData, smoothFaces, now, frameNo,
                   currentFaces, results, log, geometry, loopVars,
                   capturedImage, firebaseUrl, capturing, uploads, photoNo>>

\* uploadToFirebase(image n) after its awaits: the upload has succeeded.
UploadSucceeds(n) ==
    /\ n \in uploads
    /\ uploads' = uploads \ {n}
    /\ firebaseUrl' = DownloadUrl(n)
    /\ lastOp' = "upload done"
    /\ UNCHANGED <<trackedFaces, nextFaceId, prevFaceData, smoothFaces, now, frameNo,
                   currentFaces, results, log, geometry, loopVars,
                   currentScreen, capturedImage, capturing, resultTimers, photoNo>>

\* uploadToFirebase(image n): uploadString or getDownloadURL has thrown.
UploadFails(n) ==
    /\ n \in uploads
    /\ uploads' = uploads \ {n}
    /\ firebaseUrl' = PlaceholderUrl
    /\ lastOp' = "upload failed"
    /\ UNCHANGED <<trackedFaces, nextFaceId, prevFaceData, smoothFaces, now, frameNo,
                   currentFaces, results, log, geometry, loopVars,
                   currentScreen, capturedImage, capturing, resultTimers, photoNo>>

\* The registry and the smoothing step called directly, with any argument.
Next ==
    \/ /\ frameNo < MaxFrames
       /\ \E faces \in Frames, g \in Geometries : ApplyCall(faces, g, FrameDelayMs)
    \/ ResetCall

Spec == Init /\ [][Next]_vars

\* The program as it runs: the frame loop and the "new photo" button.
LoopNext ==
    \/ StartDetection
    \/ LoopTimeoutFires
    \/ /\ frameNo < MaxFrames
       /\ \E faces \in Frames, g \in Geometries, dt \in Delays : DetectFaces(faces, g, dt)
    \/ takeNewPhoto

LoopSpec == Init /\ [][LoopNext]_vars

\* The registry fed frames of a crowd: up to MaxCrowd of six people 0.10 apart.
CrowdNext ==
    /\ frameNo < MaxFrames
    /\ \E faces \in CrowdFrames, g \in Geometries : ApplyCall(faces, g, FrameDelayMs)

CrowdSpec == Init /\ [][CrowdNext]_vars

\* The registry fed at most one detection per call, over a longer run.
SoloNext ==
    /\ frameNo < MaxSoloFrames
    /\ \E faces \in SoloFrames, g \in Geometries, dt \in Delays : ApplyCall(faces, g, dt)

SoloSpec == Init /\ [][SoloNext]_vars

\* The registry called with whole rows of people at once.
BurstNext ==
    /\ frameNo < MaxBurstFrames
    /\ \E faces \in BurstFrames, g \in Geometries : ApplyCall(faces, g, FrameDelayMs)

BurstSpec == Init /\ [][BurstNext]_vars

\* One face that moves, grows and tilts from frame to frame.
PoseNext ==
    /\ frameNo < MaxPoseFrames
    /\ \E faces \in PoseFrames, g \in PoseGeometries : ApplyCall(faces, g, FrameDelayMs)

PoseSpec == Init /\ [][PoseNext]_vars

\* One face that comes close to the camera and moves far away from it.
ClampNext ==
    /\ frameNo < MaxPoseFrames
    /\ \E faces \in ClampFrames, g \in PoseGeometries : ApplyCall(faces, g, FrameDelayMs)

ClampSpec == Init /\ [][ClampNext]_vars

\* Faces on both sides of the frame, shown on a canvas that crops the video.
MirrorNext ==
    /\ frameNo < MaxFrames
    /\ \E faces \in MirrorFrames, g \in MirrorGeometries : ApplyCall(faces, g, FrameDelayMs)

MirrorSpec == Init /\ [][MirrorNext]_vars

\* One face shown on canvases of several shapes.
FitNext ==
    /\ frameNo < MaxFrames
    /\ \E faces \in SoloFrames, g \in FitGeometries : ApplyCall(faces, g, FrameDelayMs)

FitSpec == Init /\ [][FitNext]_vars

\* Faces that are matchThreshold or more apart.
FarNext ==
    /\ frameNo < MaxFrames
    /\ \E faces \in FarFrames, g \in Geometries : ApplyCall(faces, g, FrameDelayMs)

FarSpec == Init /\ [][FarNext]_vars

\* One iteration of detectFaces, whatever happens in it.
Iterate ==
    \/ /\ frameNo < MaxFrames
       /\ \E faces \in SoloFrames, g \in Geometries : DetectFaces(faces, g, FrameDelayMs)
    \/ DetectSkipped
    \/ DetectThrewInDetection
    \/ /\ frameNo < MaxFrames
       /\ \E faces \in SoloFrames : DetectThrewInSmoothing(faces, FrameDelayMs)

\* The detection loop from the loading of the model on, with iterations that
\* are skipped or throw.  The browser runs every timeout and every animation
\* frame callback that is pending.
TickNext ==
    \/ StartDetection
    \/ LoopTimeoutFires
    \/ Iterate

TickSpec ==
    Init /\ [][TickNext]_vars /\ WF_vars(LoopTimeoutFires) /\ WF_vars(Iterate)

\* The photo flow: countdown, capture, upload, result screen, new photo.  The
\* "new photo" button exists on the result screen only.  The browser fires the
\* timeout of the result screen; an upload may stay pending for ever.
PhotoNext ==
    \/ photoNo < MaxPhotos /\ startPhotoCapture
    \/ capturePhoto
    \/ CaptureSucceeds
    \/ CaptureFails
    \/ ResultTimerFires
    \/ \E n \in 1..MaxPhotos : UploadSucceeds(n)
    \/ \E n \in 1..MaxPhotos : UploadFails(n)
    \/ currentScreen = "result" /\ takeNewPhoto

PhotoSpec == Init /\ [][PhotoNext]_vars /\ WF_vars(ResultTimerFires)

\* The registry fed incomplete landmark arrays.
RaggedNext ==
    /\ frameNo < MaxFrames
    /\ \E faces \in RaggedFrames, g \in Geometries : ApplyCall(faces, g, FrameDelayMs)

RaggedSpec == Init /\ [][RaggedNext]_vars

----------------------------------------------------------------------------
(* Vocabulary of the properties *)

TrackIds(tracks) == {tracks[i].faceId : i \in 1..Len(tracks)}

ResultIds(rs) == {rs[k].faceId : k \in 1..Len(rs)}

\* The last operation called processDetections.
PDCalled ==
    \/ lastOp = "applySmoothInterpolation"
    \/ lastOp = "detectFaces" /\ currentFaces # << >>

\* This step is a call of processDetections.
PDStep ==
    /\ frameNo' = frameNo + 1
    /\ \/ lastOp' = "applySmoothInterpolation"
       \/ lastOp' = "detectFaces" /\ currentFaces' # << >>

\* The lowest slot of 1..maxFaces that no track of tracks carries (0: none).
LowestFreeSlot(tracks) ==
    LET free == {m \in 1..maxFaces : \A i \in 1..Len(tracks) : tracks[i].maskNumber # m}
    IN IF free = {} THEN 0 ELSE CHOOSE m \in free : \A n \in free : m <= n

\* The first result of rs whose faceId was allocated from counter value nextId on.
FirstNew(rs, nextId) ==
    LET new == {k \in 1..Len(rs) : rs[k].faceId >= nextId}
    IN IF new = {} THEN 0 ELSE CHOOSE k \in new : \A n \in new : k <= n

\* The results of rs before position k whose faceId was allocated from counter
\* value nextId on: the tracks created earlier in the same call.
NewBefore(rs, nextId, k) == {j \in 1..(k - 1) : rs[j].faceId >= nextId}

\* The slots of 1..maxFaces carried neither by a track of tracks nor by a
\* result of rs at a position in earlier.
FreeSlots(tracks, rs, earlier) ==
    {m \in 1..maxFaces :
        /\ \A i \in 1..Len(tracks) : tracks[i].maskNumber # m
        /\ \A j \in earlier : rs[j].maskNumber # m}

\* pose and raw agree on the four smoothed fields.
SamePose(pose, raw) ==
    /\ pose.x = raw.x
    /\ pose.y = raw.y
    /\ pose.rotation = raw.rotation
    /\ pose.size = raw.size

\* The positions of the cache entries for faceId.
CacheEntries(cache, faceId) == {p \in 1..Len(cache) : cache[p].faceId = faceId}

\* new = prev + (raw - prev) * 0.2, as 5 * (new - prev) = raw - prev.
BlendOf(new, prev, raw) == 5 * (new - prev) = raw - prev

\* The faceIds of a pose list or of the cache.
PoseIds(poses) == {poses[k].faceId : k \in 1..Len(poses)}

----------------------------------------------------------------------------
(* Properties *)

\* C1: after any sequence of processDetections calls the maskNumbers of the
\* tracks in trackedFaces are pairwise distinct and all lie in 1..maxFaces.
C1_SlotsDistinctInRange ==
    \A i, j \in 1..Len(trackedFaces) :
        /\ trackedFaces[i].maskNumber \in 1..maxFaces
        /\ i # j => trackedFaces[i].maskNumber # trackedFaces[j].maskNumber

\* C2: after any sequence of processDetections calls trackedFaces holds at most
\* maxFaces tracks.
C2_TrackCountBounded == Len(trackedFaces) <= maxFaces

\* A call with one detection on a registry holding one track of the same size.
SingleFaceStep ==
    /\ PDStep
    /\ Len(trackedFaces) = 1
    /\ Len(currentFaces') = 1
    /\ Detection(currentFaces'[1], 0).center # Null
    /\ Detection(currentFaces'[1], 0).size = trackedFaces[1].size

\* Seven times the distance from the track's center to the detection's.
Moved7 == 7 * calculateDistance(Detection(currentFaces'[1], 0), trackedFaces[1])

SameIdentityKept ==
    /\ Len(results') = 1
    /\ results'[1].faceId = trackedFaces[1].faceId
    /\ results'[1].maskNumber = trackedFaces[1].maskNumber
    /\ Len(trackedFaces') = 1
    /\ trackedFaces'[1].faceId = trackedFaces[1].faceId

\* C3 as stated: a single face of constant size whose center moves by less than
\* matchThreshold between consecutive calls keeps its faceId and maskNumber.
C3_StableBelowMatchThreshold ==
    [][(SingleFaceStep /\ Moved7 < 7 * matchThreshold) => SameIdentityKept]_vars

\* C3 amended: a single face of constant size whose center moves by less than
\* 4/7 of matchThreshold (the distance at which the score of equal sizes falls
\* to 0.6) between consecutive calls keeps its faceId and maskNumber, and one
\* whose center moves by that much or more is returned under another faceId.
C3_StableBelowFourSevenths ==
    [][/\ (SingleFaceStep /\ Moved7 < 4 * matchThreshold) => SameIdentityKept
       /\ (SingleFaceStep /\ Moved7 >= 4 * matchThreshold)
          => (Len(results') = 1 /\ results'[1].faceId # trackedFaces[1].faceId)]_vars

\* A single track, the first ever created, matched at a center other than the
\* one of its previous pose: the pose was blended with a different position.
C3_Witness ==
    /\ PDCalled
    /\ Len(trackedFaces) = 1 /\ trackedFaces[1].faceId = 1 /\ nextFaceId = 2
    /\ Len(results) = 1 /\ results[1].faceId = 1
    /\ trackedFaces[1].firstSeen < trackedFaces[1].lastSeen
    /\ Len(smoothFaces) = 1
    /\ \A g \in Geometries : smoothFaces[1].x # RawPose(results[1], g).x

\* C4: a track's maskNumber never changes while it is in trackedFaces, and every
\* result of a call carries the maskNumber of the track with its faceId.
C4_MaskStable ==
    [][/\ \A i \in 1..Len(trackedFaces), j \in 1..Len(trackedFaces') :
            trackedFaces[i].faceId = trackedFaces'[j].faceId
            => trackedFaces[i].maskNumber = trackedFaces'[j].maskNumber
       /\ PDStep =>
            \A k \in 1..Len(results') :
               /\ \E j \in 1..Len(trackedFaces') :
                     /\ trackedFaces'[j].faceId = results'[k].faceId
                     /\ trackedFaces'[j].maskNumber = results'[k].maskNumber
               /\ \A i \in 1..Len(trackedFaces) :
                     trackedFaces[i].faceId = results'[k].faceId
                     => trackedFaces[i].maskNumber = results'[k].maskNumber]_vars

\* A track holding slot 2 that was created in an earlier call is matched again.
C4_Witness ==
    /\ PDCalled
    /\ \E i \in 1..Len(trackedFaces), k \in 1..Len(results) :
          /\ trackedFaces[i].faceId = results[k].faceId
          /\ trackedFaces[i].firstSeen < trackedFaces[i].lastSeen
          /\ trackedFaces[i].maskNumber = 2
          /\ results[k].maskNumber = 2

\* C5: in the frame loop, after a frame in which the detector returned no face
\* the registry holds no track and the previous-pose cache is empty.
C5_ZeroFacesFrameClears ==
    (lastOp = "detectFaces" /\ currentFaces = << >>)
    => (trackedFaces = << >> /\ prevFaceData = << >>)

\* C6: a call with an empty list returns an empty list, leaves trackedFaces
\* empty and produces an empty pose list (and an empty cache).
C6_EmptyCallClears ==
    (lastOp = "applySmoothInterpolation" /\ currentFaces = << >>)
    => /\ results = << >>
       /\ trackedFaces = << >>
       /\ smoothFaces = << >>
       /\ prevFaceData = << >>

\* An empty call that found tracks still in the Map and cleared them.
C6_Witness ==
    /\ lastOp = "applySmoothInterpolation"
    /\ currentFaces = << >>
    /\ \E k \in 1..Len(log) : log[k].ev = "clear"

\* C7: a call with a non-empty list whose detections all have a null center
\* clears all tracks and returns an empty list.
C7_AllNullCentersClear ==
    (/\ PDCalled
     /\ currentFaces # << >>
     /\ \A i \in 1..Len(currentFaces) : Detection(currentFaces[i], i - 1).center = Null)
    => (trackedFaces = << >> /\ results = << >>)

\* C8: a track with no matching detection in two consecutive calls with
\* non-empty input is gone after the second, and the first track a call creates
\* gets the lowest slot no track carries, a slot freed by a removal included.
C8_ExpiryAndSlotReuse ==
    [][(PDStep /\ Len(currentFaces') > 0) =>
        /\ \A i \in 1..Len(trackedFaces) :
              (/\ Len(currentFaces) > 0
               /\ trackedFaces[i].faceId \notin ResultIds(results)
               /\ trackedFaces[i].faceId \notin ResultIds(results'))
              => trackedFaces[i].faceId \notin TrackIds(trackedFaces')
        /\ (FirstNew(results', nextFaceId) # 0 /\ LowestFreeSlot(trackedFaces) # 0)
              => results'[FirstNew(results', nextFaceId)].maskNumber
                    = LowestFreeSlot(trackedFaces)]_vars

\* The fourth call removes the first track: it was matched in the second call
\* (or it would not have outlived it) and missed in the third and the fourth.
C8_Witness ==
    /\ PDCalled
    /\ frameNo = 4
    /\ currentFaces # << >>
    /\ \E k \in 1..Len(log) : log[k].ev = "left" /\ log[k].faceId = 1
    /\ \A i \in 1..Len(trackedFaces) : trackedFaces[i].firstSeen > FrameDelayMs

\* C9: a track that is not matched in one call is no longer in trackedFaces
\* when that call returns.
C9_RemovedAfterOneMiss ==
    [][PDStep =>
        \A i \in 1..Len(trackedFaces) :
            trackedFaces[i].faceId \notin ResultIds(results')
            => trackedFaces[i].faceId \notin TrackIds(trackedFaces')]_vars

\* C10: with two tracks A and B, a call whose detections all match A returns A's
\* faceId and maskNumber and leaves B in trackedFaces with framesMissing = 1; a
\* call holding B's own landmarks while B has framesMissing = 1 returns B's
\* faceId and maskNumber for them.
C10_OneMissingOneKept ==
    [][PDStep =>
        /\ \A a, b \in 1..Len(trackedFaces) :
              (/\ Len(trackedFaces) = 2 /\ a # b
               /\ results' # << >>
               /\ ResultIds(results') = {trackedFaces[a].faceId})
              => /\ \A k \in 1..Len(results') :
                       results'[k].maskNumber = trackedFaces[a].maskNumber
                 /\ \E j \in 1..Len(trackedFaces') :
                       /\ trackedFaces'[j].faceId = trackedFaces[b].faceId
                       /\ trackedFaces'[j].maskNumber = trackedFaces[b].maskNumber
                       /\ trackedFaces'[j].framesMissing = 1
        /\ \A b \in 1..Len(trackedFaces), k \in 1..Len(results') :
              (/\ Len(trackedFaces) = 2
               /\ trackedFaces[b].framesMissing = 1
               /\ results'[k].landmarks = trackedFaces[b].landmarks)
              => /\ results'[k].faceId = trackedFaces[b].faceId
                 /\ results'[k].maskNumber = trackedFaces[b].maskNumber]_vars

\* C11: a detection that matches no track gets the smallest slot of 1..maxFaces
\* carried by no track in the Map at that moment, the tracks created earlier in
\* the same call included (when there is such a slot), and the next counter
\* value as faceId; the counter advances by one per track created.
C11_NewTrackLowestSlotNextId ==
    [][PDStep =>
        /\ \A k \in 1..Len(results') :
              results'[k].faceId >= nextFaceId
              => /\ results'[k].faceId
                      = nextFaceId + Cardinality(NewBefore(results', nextFaceId, k))
                 /\ \A m \in FreeSlots(trackedFaces, results',
                                       NewBefore(results', nextFaceId, k)) :
                       results'[k].maskNumber <= m
                 /\ FreeSlots(trackedFaces, results', NewBefore(results', nextFaceId, k)) # {}
                    => results'[k].maskNumber
                          \in FreeSlots(trackedFaces, results',
                                        NewBefore(results', nextFaceId, k))
        /\ nextFaceId' = nextFaceId
                          + Cardinality(NewBefore(results', nextFaceId, Len(results') + 1))]_vars

\* A call that created two tracks while a track with a higher slot, left from
\* an earlier call, was still in the Map: slot 1 had been freed and is reused.
C11_Witness ==
    /\ PDCalled
    /\ \E a, b \in 1..Len(log) :
          /\ a < b
          /\ log[a].ev = "new" /\ log[a].maskNumber = 1
          /\ log[b].ev = "new" /\ log[b].faceId = log[a].faceId + 1
    /\ \E i \in 1..Len(trackedFaces) :
          /\ trackedFaces[i].firstSeen < now
          /\ trackedFaces[i].maskNumber = 2

\* Six detections on an empty registry, no one of which would match another.
SixStrangersArrive ==
    /\ PDStep
    /\ trackedFaces = << >>
    /\ Len(currentFaces') = 6
    /\ \A i \in 1..6 : Detection(currentFaces'[i], i - 1).center # Null
    /\ \A i, j \in 1..6 :
          i # j => ~ScoreGT(calculateSimilarity(Detection(currentFaces'[i], i - 1),
                                               Detection(currentFaces'[j], j - 1)),
                            MinSimilarity)

\* C12: six mutually non-matching detections in one call on an empty registry
\* are all accepted: the first five get slots 1..5 in input order, the sixth
\* gets slot 1, and the six faceIds are pairwise distinct.
C12_SixthFallsBackToSlotOne ==
    [][SixStrangersArrive =>
        /\ Len(results') = 6
        /\ Len(trackedFaces') = 6
        /\ \A k \in 1..6 :
              /\ results'[k].landmarks = currentFaces'[k]
              /\ results'[k].maskNumber = (IF k = 6 THEN 1 ELSE k)
              /\ trackedFaces'[k].faceId = results'[k].faceId
              /\ trackedFaces'[k].maskNumber = results'[k].maskNumber
        /\ \A j, k \in 1..6 : j # k => results'[j].faceId # results'[k].faceId]_vars

\* The row of six was fed to a registry that had never held a track.
C12_Witness ==
    /\ PDCalled
    /\ Len(currentFaces) = 6
    /\ Len(results) = 6
    /\ results[6].maskNumber = 1
    /\ Len(trackedFaces) = 6
    /\ nextFaceId = 7

\* C13: in every call of processDetections the counter does not go down, every
\* track the call creates gets a faceId at or above the counter's value before
\* the call and below its value after it, every track already in the Map has a
\* faceId below the counter, and no two tracks share a faceId: a faceId once
\* given is never given again, also after its track was removed.
C13_FaceIdsNeverReused ==
    [][PDStep =>
        /\ nextFaceId' >= nextFaceId
        /\ \A i \in 1..Len(trackedFaces) : trackedFaces[i].faceId < nextFaceId
        /\ \A j \in 1..Len(trackedFaces') :
              trackedFaces'[j].faceId \notin TrackIds(trackedFaces)
              => /\ trackedFaces'[j].faceId >= nextFaceId
                 /\ trackedFaces'[j].faceId < nextFaceId'
        /\ \A i, j \in 1..Len(trackedFaces') :
              i # j => trackedFaces'[i].faceId # trackedFaces'[j].faceId]_vars

\* The third track ever created is alone in the Map: the two before it were
\* removed and their faceIds 1 and 2 were not given again.
C13_Witness ==
    /\ PDCalled
    /\ frameNo = 3
    /\ Len(trackedFaces) = 1
    /\ trackedFaces[1].faceId = 3
    /\ nextFaceId = 4

\* C14: reset(), called in any registry state, leaves trackedFaces empty and
\* nextFaceId at 1, and a second reset() right after it changes nothing.
C14_ResetClearsAndIsIdempotent ==
    /\ lastOp = "reset" => (trackedFaces = << >> /\ nextFaceId = 1)
    /\ resetRegistry(trackedFaces, nextFaceId) = [tracked |-> << >>, nextFaceId |-> 1]
    /\ resetRegistry(resetRegistry(trackedFaces, nextFaceId).tracked,
                     resetRegistry(trackedFaces, nextFaceId).nextFaceId)
          = resetRegistry(trackedFaces, nextFaceId)

\* reset() was called on a registry whose last call had returned tracked faces.
C14_Witness ==
    /\ lastOp = "reset"
    /\ results # << >>
    /\ trackedFaces = << >>
    /\ nextFaceId = 1

\* C15: the first pose of a track created by a call, a call after reset()
\* included, is the raw projected value of its detection.
C15_FirstPoseAfterResetIsRaw ==
    [][PDStep =>
        \A k \in 1..Len(results') :
            results'[k].faceId \notin TrackIds(trackedFaces)
            => /\ Len(smoothFaces') = Len(results')
               /\ smoothFaces'[k].faceId = results'[k].faceId
               /\ \A g \in Geometries : SamePose(smoothFaces'[k], RawPose(results'[k], g))]_vars

\* C16: after every frame processed by applySmoothInterpolation the pose list
\* holds exactly one pose per track of the registry: the poses' faceIds are
\* pairwise distinct, each pose carries the faceId and maskNumber of a track in
\* trackedFaces, and every track in trackedFaces has a pose.
C16_OnePosePerTrack ==
    lastOp = "applySmoothInterpolation" =>
        /\ \A j, k \in 1..Len(smoothFaces) :
              j # k => smoothFaces[j].faceId # smoothFaces[k].faceId
        /\ \A k \in 1..Len(smoothFaces) :
              \E i \in 1..Len(trackedFaces) :
                 /\ trackedFaces[i].faceId = smoothFaces[k].faceId
                 /\ trackedFaces[i].maskNumber = smoothFaces[k].maskNumber
        /\ \A i \in 1..Len(trackedFaces) : trackedFaces[i].faceId \in PoseIds(smoothFaces)

\* C17: the pose of a result whose faceId has no entry in the cache left by the
\* call before has the raw projected x, y, rotation and size; the pose of a
\* result with an entry has prev + (raw - prev) * 0.2 in each of the four
\* fields, prev being the first entry with that faceId.
C17_RawWithoutEntryBlendWithEntry ==
    [][PDStep =>
        /\ Len(smoothFaces') = Len(results')
        /\ \A k \in 1..Len(results'), g \in PoseGeometries :
              /\ smoothFaces'[k].faceId = results'[k].faceId
              /\ smoothFaces'[k].maskNumber = results'[k].maskNumber
              /\ CacheEntries(prevFaceData, results'[k].faceId) = {}
                 => SamePose(smoothFaces'[k], RawPose(results'[k], g))
              /\ \A p \in CacheEntries(prevFaceData, results'[k].faceId) :
                    (\A q \in CacheEntries(prevFaceData, results'[k].faceId) : p <= q)
                    => /\ BlendOf(smoothFaces'[k].x, prevFaceData[p].x,
                                  RawPose(results'[k], g).x)
                       /\ BlendOf(smoothFaces'[k].y, prevFaceData[p].y,
                                  RawPose(results'[k], g).y)
                       /\ BlendOf(smoothFaces'[k].rotation, prevFaceData[p].rotation,
                                  RawPose(results'[k], g).rotation)
                       /\ BlendOf(smoothFaces'[k].size, prevFaceData[p].size,
                                  RawPose(results'[k], g).size)]_vars

\* A pose that lies off the raw value in all four fields: the face moved, grew
\* and tilted, and its pose was blended with the cached one.
C17_Witness ==
    /\ PDCalled
    /\ Len(smoothFaces) = 1
    /\ Len(results) = 1
    /\ \A g \in PoseGeometries :
          /\ smoothFaces[1].x # RawPose(results[1], g).x
          /\ smoothFaces[1].y # RawPose(results[1], g).y
          /\ smoothFaces[1].rotation # RawPose(results[1], g).rotation
          /\ smoothFaces[1].size # RawPose(results[1], g).size

\* C18: in the frame loop a pose is blended with a cached pose only if its
\* track was in the pose output of the frame before: a result of a frame whose
\* faceId is not among the poses of the preceding frame (a frame with zero
\* detections has none) finds no cache entry and gets the raw pose.
C18_NoSmoothingAcrossGap ==
    [][(/\ lastOp = "detectFaces"
        /\ lastOp' = "detectFaces"
        /\ frameNo' = frameNo + 1
        /\ currentFaces' # << >>) =>
        \A k \in 1..Len(results') :
            results'[k].faceId \notin PoseIds(smoothFaces)
            => /\ CacheEntries(prevFaceData, results'[k].faceId) = {}
               /\ \A g \in Geometries : SamePose(smoothFaces'[k], RawPose(results'[k], g))]_vars

\* The positions of faces whose landmark array yields a center.
WithCenter(faces) == {i \in 1..Len(faces) : Detection(faces[i], i - 1).center # Null}

\* C19: whatever landmark arrays a call is given (empty, without eye corners,
\* without nose or outline), it returns: one result, in input order, for each
\* array that has the four eye corners and none for the others, every result
\* with a center of two coordinates, a faceId handed out by the counter, a
\* maskNumber in 1..maxFaces and a positive size.
C19_ResultsWellFormed ==
    PDCalled =>
        /\ Len(results) = Cardinality(WithCenter(currentFaces))
        /\ \A k \in 1..Len(results) :
              /\ results[k].center # Null
              /\ Len(results[k].center) = 2
              /\ results[k].faceId \in 1..(nextFaceId - 1)
              /\ results[k].maskNumber \in 1..maxFaces
              /\ results[k].size > 0
              /\ results[k].originalIndex + 1 \in WithCenter(currentFaces)
              /\ results[k].landmarks = currentFaces[results[k].originalIndex + 1]
        /\ \A j, k \in 1..Len(results) :
              j < k => results[j].originalIndex < results[k].originalIndex

\* A call given an array without eye corners (or an empty one) next to an
\* array with the eye corners only: the first is dropped, the second is
\* returned with the default size 0.2.
C19_Witness ==
    /\ PDCalled
    /\ Len(currentFaces) = 2
    /\ Len(results) = 1
    /\ calculateFaceCenter(Landmarks(results[1].landmarks)) # Null
    /\ ~Present(Landmarks(results[1].landmarks), 10)
    /\ ~Present(Landmarks(results[1].landmarks), 1)
    /\ results[1].size = 200

\* err1 = err0 * (1 - 0.2), and err1 < err0 unless both are 0.
Contracts(err1, err0) == 5 * err1 = 4 * err0 /\ (err0 > 0 => err1 < err0)

\* C20: in every frame in which a track's pose is blended with its cached
\* pose, the distance of the smoothed position from the frame's raw position
\* (the target) is 0.8 times the distance the cached position had from it, in
\* x and in y; with the target held for N frames the error is therefore
\* 0.8^N times the initial one and strictly decreasing.
C20_ErrorShrinksByFourFifths ==
    [][PDStep =>
        \A k \in 1..Len(results'), g \in PoseGeometries :
           \A p \in CacheEntries(prevFaceData, results'[k].faceId) :
              (\A q \in CacheEntries(prevFaceData, results'[k].faceId) : p <= q)
              => /\ Contracts(Abs(smoothFaces'[k].x - RawPose(results'[k], g).x),
                              Abs(prevFaceData[p].x - RawPose(results'[k], g).x))
                 /\ Contracts(Abs(smoothFaces'[k].y - RawPose(results'[k], g).y),
                              Abs(prevFaceData[p].y - RawPose(results'[k], g).y))]_vars

\* The face was first seen as P and then held at Q for three frames: the
\* distance of the pose from Q's raw position is 0.8^3 = 64/125 of the step.
C20_Witness ==
    /\ PDCalled
    /\ frameNo = 4
    /\ currentFaces = <<22>>
    /\ nextFaceId = 2
    /\ Len(trackedFaces) = 1
    /\ trackedFaces[1].firstSeen = FrameDelayMs
    /\ Len(smoothFaces) = 1
    /\ \A g \in PoseGeometries :
          /\ smoothFaces[1].x # RawPose(results[1], g).x
          /\ 125 * Abs(smoothFaces[1].x - RawPose(results[1], g).x)
                = 64 * Abs(RawPose(Detection(21, 0), g).x - RawPose(results[1], g).x)
          /\ 125 * Abs(smoothFaces[1].y - RawPose(results[1], g).y)
                = 64 * Abs(RawPose(Detection(21, 0), g).y - RawPose(results[1], g).y)

\* faceSize * displayedVideoHeight * 2.5 of a result, before the clamp.
BaseMaskSize(faceData, g) == (faceData.size * CoverFit(g).height * 25) \div 10

\* C21: every pose in the pose list, raw or smoothed, has a size of at least
\* 100 and at most 800 pixels, also when the face is so far away or so close
\* that 2.5 times its height on the screen is outside that range.
C21_PoseSizeClamped ==
    \A k \in 1..Len(smoothFaces) :
       /\ smoothFaces[k].size >= minMaskSize * 1000
       /\ smoothFaces[k].size <= maxMaskSize * 1000

\* The face was close up (2.5 times its height is above 800 pixels) and is now
\* far away (below 100 pixels): the smoothed size lies strictly between the
\* two limits.
C21_Witness ==
    /\ PDCalled
    /\ Len(results) = 1
    /\ Len(smoothFaces) = 1
    /\ Len(prevFaceData) = 1
    /\ \A g \in PoseGeometries : BaseMaskSize(results[1], g) < minMaskSize * 1000
    /\ \E f \in ClampFaces, g \in PoseGeometries :
          BaseMaskSize(Detection(f, 0), g) > maxMaskSize * 1000
    /\ smoothFaces[1].size > minMaskSize * 1000
    /\ smoothFaces[1].size < maxMaskSize * 1000
    /\ 5 * (smoothFaces[1].size - minMaskSize * 1000) = 4 * (maxMaskSize - minMaskSize) * 1000

\* The position in faces of the k-th array that has a center.
NthWithCenter(faces, k) ==
    CHOOSE i \in WithCenter(faces) : Cardinality({j \in WithCenter(faces) : j <= i}) = k

\* C22: a call with a non-empty input returns exactly one result for each
\* detection that has a center, the k-th result being the k-th such detection
\* of the input (its landmarks, center, size and rotation), whatever the order
\* of the tracks, and carrying the faceId and maskNumber of a track.
C22_OneResultPerDetectionInInputOrder ==
    [][(PDStep /\ currentFaces' # << >>) =>
        /\ Len(results') = Cardinality(WithCenter(currentFaces'))
        /\ \A k \in 1..Len(results') :
              \E i \in {NthWithCenter(currentFaces', k)} :
                 \E d \in {Detection(currentFaces'[i], i - 1)} :
                    /\ results'[k].landmarks = d.landmarks
                    /\ results'[k].center = d.center
                    /\ results'[k].size = d.size
                    /\ results'[k].rotation = d.rotation
                    /\ \E n \in 1..Len(trackedFaces') :
                          /\ trackedFaces'[n].faceId = results'[k].faceId
                          /\ trackedFaces'[n].maskNumber = results'[k].maskNumber]_vars

\* Two tracks exist and the input lists their faces the other way round: the
\* results follow the input, not the tracks.
C22_Witness ==
    /\ PDCalled
    /\ Len(currentFaces) = 2
    /\ Len(results) = 2
    /\ Len(trackedFaces) = 2
    /\ results[1].landmarks = currentFaces[1]
    /\ results[2].landmarks = currentFaces[2]
    /\ results[1].faceId = trackedFaces[2].faceId
    /\ results[2].faceId = trackedFaces[1].faceId
    /\ trackedFaces[1].firstSeen < now
    /\ trackedFaces[2].firstSeen < now

\* The score of the two faces is above the acceptance level.
Similar(face1, face2) == ScoreGT(calculateSimilarity(face1, face2), MinSimilarity)

\* C23: matching is not exclusive within a call.  When the registry holds one
\* track, the first of two detections of a frame matches it, and the second
\* detection is similar to the first (whose values the track now carries),
\* then the second detection matches the same track: both results carry the
\* track's faceId and maskNumber and no track is created.  A second detection
\* that is not similar to the first gets another faceId.
C23_TwoDetectionsMatchOneTrack ==
    [][(/\ PDStep
        /\ Len(trackedFaces) = 1
        /\ Len(currentFaces') = 2
        /\ Len(results') = 2
        /\ results'[1].faceId = trackedFaces[1].faceId)
       => IF Similar(results'[2], results'[1])
          THEN /\ results'[2].faceId = trackedFaces[1].faceId
               /\ results'[2].maskNumber = trackedFaces[1].maskNumber
               /\ results'[1].maskNumber = trackedFaces[1].maskNumber
               /\ nextFaceId' = nextFaceId
               /\ TrackIds(trackedFaces') = {trackedFaces[1].faceId}
          ELSE results'[2].faceId # results'[1].faceId]_vars

\* One frame with two different detections, both returned with the faceId and
\* maskNumber of the one track that existed before the frame.
C23_Witness ==
    /\ PDCalled
    /\ Len(currentFaces) = 2
    /\ Len(results) = 2
    /\ results[1].center # results[2].center
    /\ results[1].faceId = results[2].faceId
    /\ results[1].maskNumber = results[2].maskNumber
    /\ Len(trackedFaces) = 1
    /\ trackedFaces[1].faceId = results[1].faceId
    /\ trackedFaces[1].firstSeen < now
    /\ trackedFaces[1].center = results[2].center

\* 0.7 * max(0, 1 - distance / matchThreshold) + 0.3 * max(0, 1 - sizeDiff),
\* multiplied by 10 * matchThreshold * max(size1, size2).
WeightedScore(face1, face2) ==
    LET m == Max2(face1.size, face2.size)
    IN 7 * Max2(0, matchThreshold - calculateDistance(face1, face2)) * m
       + 3 * matchThreshold * Max2(0, m - Abs(face1.size - face2.size))

\* The score of face1 and face2 is strictly above 0.6.
AboveSixTenths(face1, face2) ==
    WeightedScore(face1, face2) > 6 * matchThreshold * Max2(face1.size, face2.size)

\* The score of newFace with track1 is at least its score with track2.
ScoresAtLeast(newFace, track1, track2) ==
    WeightedScore(newFace, track1) * Max2(newFace.size, track2.size)
        >= WeightedScore(newFace, track2) * Max2(newFace.size, track1.size)

\* C24: a detection is matched to a track only if their score, 0.7 times the
\* distance score plus 0.3 times the size score, is strictly above 0.6, and
\* then no track of the registry has a higher score; when no track scores
\* above 0.6 the detection is not matched and gets a new faceId.
C24_BestMatchAboveSixTenths ==
    [][(PDStep /\ Len(currentFaces') = 1 /\ Len(results') = 1)
       => IF results'[1].faceId \in TrackIds(trackedFaces)
          THEN \E i \in 1..Len(trackedFaces) :
                  /\ trackedFaces[i].faceId = results'[1].faceId
                  /\ AboveSixTenths(results'[1], trackedFaces[i])
                  /\ \A j \in 1..Len(trackedFaces) :
                        ScoresAtLeast(results'[1], trackedFaces[i], trackedFaces[j])
          ELSE /\ results'[1].faceId = nextFaceId
               /\ \A j \in 1..Len(trackedFaces) :
                     ~AboveSixTenths(results'[1], trackedFaces[j])]_vars

\* Two tracks score above 0.6 for the detection; it is matched to the second
\* one, whose score was the higher, and not to the first.
C24_Witness ==
    /\ PDCalled
    /\ Len(results) = 1
    /\ Len(trackedFaces) = 2
    /\ results[1].faceId = trackedFaces[2].faceId
    /\ trackedFaces[2].firstSeen < now
    /\ trackedFaces[2].center = results[1].center
    /\ AboveSixTenths(results[1], trackedFaces[1])
    /\ trackedFaces[1].center # results[1].center

\* The registry and the locals of a call before its first detection is handled.
CallStart == [tracked |-> trackedFaces, nextFaceId |-> nextFaceId,
              matchedFaceIds |-> {}, results |-> << >>, log |-> << >>]

C26_StaleRemovedMatchedKept ==
    [][(PDStep /\ currentFaces' # << >>)
       => /\ \A i \in 1..Len(trackedFaces) :
                (/\ trackedFaces[i].faceId \notin ResultIds(results')
                 /\ now' - trackedFaces[i].lastSeen > maxFaceAge)
                => trackedFaces[i].faceId \notin TrackIds(trackedFaces')
          /\ \A k \in 1..Len(results') :
                \E n \in 1..Len(trackedFaces') :
                   /\ trackedFaces'[n].faceId = results'[k].faceId
                   /\ now' - trackedFaces'[n].lastSeen <= maxFaceAge]_vars

\* A track that had missed a single frame, which the missing-frames rule
\* tolerates, has been removed as stale, while the track created in the same
\* call stays.
C26_Witness ==
    /\ PDCalled
    /\ Len(results) = 1
    /\ results[1].faceId \in TrackIds(trackedFaces)
    /\ \E k \in 1..Len(log) :
          /\ log[k].ev = "stale"
          /\ log[k].faceId \notin TrackIds(trackedFaces)
          /\ \A j \in 1..Len(log) : log[j].ev = "left" => log[j].faceId # log[k].faceId

\* C27: whenever processDetections has returned no result to
\* applySmoothInterpolation, because the input was empty or because no
\* detection of it had a center, the pose list and the cache of previous
\* poses are both empty after the call.
C27_NoResultsNoPosesNoCache ==
    (PDCalled /\ results = << >>) => (smoothFaces = << >> /\ prevFaceData = << >>)

\* A frame whose only detections have no center, while the registry still
\* holds a track that was shown in the frame before: no pose, no cache entry.
C27_Witness ==
    /\ PDCalled
    /\ currentFaces # << >>
    /\ results = << >>
    /\ Len(trackedFaces) = 1
    /\ trackedFaces[1].framesMissing = 1
    /\ trackedFaces[1].lastSeen = now - FrameDelayMs
    /\ trackedFaces[1].firstSeen < trackedFaces[1].lastSeen
    /\ smoothFaces = << >>
    /\ prevFaceData = << >>

\* The array is not empty and has the four eye corners.
HasEyeCorners(lm) ==
    /\ lm.length > 0
    /\ \A i \in {33, 133, 362, 263} : Present(lm, i)

\* The midpoint of the centers of the two eyes.
EyeCenter(lm) ==
    <<((lm.pts[33][1] + lm.pts[133][1]) \div 2 + (lm.pts[362][1] + lm.pts[263][1]) \div 2) \div 2,
      ((lm.pts[33][2] + lm.pts[133][2]) \div 2 + (lm.pts[362][2] + lm.pts[263][2]) \div 2) \div 2>>

\* The results of the call that were made from the array at position i.
ResultsOf(i) == {k \in 1..Len(results) : results[k].originalIndex = i - 1}

\* The center of every result is the eye center moved down by 0.6 times
\* noseToEye(lm), and arrays for which required(lm) is false have no result.
CentersAre(required(_), noseToEye(_)) ==
    PDCalled =>
       \A i \in 1..Len(currentFaces) :
          \E lm \in {Landmarks(currentFaces[i])} :
             IF required(lm)
             THEN /\ ResultsOf(i) # {}
                  /\ \A k \in ResultsOf(i) :
                        results[k].center = <<EyeCenter(lm)[1],
                                              EyeCenter(lm)[2] + (6 * noseToEye(lm)) \div 10>>
             ELSE ResultsOf(i) = {}

\* C28 as stated: there is no center when the array is empty or when one of
\* the eye corners 33, 133, 362, 263 or the nose tip 1 is missing; otherwise
\* the center is the midpoint of the eye centers moved in y by 0.6 times the
\* vertical distance from it to the nose tip.
C28_NullWithoutEyesOrNose ==
    CentersAre(LAMBDA lm : HasEyeCorners(lm) /\ Present(lm, 1),
               LAMBDA lm : lm.pts[1][2] - EyeCenter(lm)[2])

\* C28, amended: there is no center when the array is empty or when one of
\* the eye corners 33, 133, 362, 263 is missing; otherwise the center is the
\* midpoint of the eye centers moved in y by 0.6 times the vertical distance
\* from it to the nose tip, or by 0.6 times 0.03 when the nose tip is missing.
C28_NullWithoutEyesDefaultWithoutNose ==
    CentersAre(HasEyeCorners,
               LAMBDA lm : IF Present(lm, 1) THEN lm.pts[1][2] - EyeCenter(lm)[2] ELSE 30)

\* An array with the four eye corners and no nose tip: it has a center, 0.018
\* below the eye center.
C28_Witness ==
    /\ PDCalled
    /\ Len(currentFaces) = 1
    /\ Len(results) = 1
    /\ HasEyeCorners(Landmarks(currentFaces[1]))
    /\ ~Present(Landmarks(currentFaces[1]), 1)
    /\ results[1].center[1] = EyeCenter(Landmarks(currentFaces[1]))[1]
    /\ results[1].center[2] = EyeCenter(Landmarks(currentFaces[1]))[2] + 18

\* The array is not empty and has the top, chin and cheek landmarks.
HasOutline(lm) ==
    /\ lm.length > 0
    /\ \A i \in {10, 152, 234, 454} : Present(lm, i)

\* C29: for every landmark array of a frame, calculateFaceSize gives 0.2 when
\* the array is empty or lacks one of the landmarks 10, 152, 234, 454 and the
\* larger of the vertical extent (10 to 152) and the horizontal extent (234 to
\* 454) otherwise; calculateHeadRotation gives 0 when the array is empty or
\* lacks an eye corner; both give a value (a number) in every case, and the
\* results of the call carry these values.
C29_SizeAndRotationDefaults ==
    PDCalled =>
       \A i \in 1..Len(currentFaces) :
          \E lm \in {Landmarks(currentFaces[i])} :
             \E d \in {Detection(currentFaces[i], i - 1)} :
                /\ d.size \in Nat
                /\ d.rotation \in Int
                /\ ~HasOutline(lm) => d.size = 200
                /\ HasOutline(lm) =>
                      d.size = Max2(Abs(lm.pts[152][2] - lm.pts[10][2]),
                                    Abs(lm.pts[454][1] - lm.pts[234][1]))
                /\ ~HasEyeCorners(lm) => d.rotation = 0
                /\ \A k \in ResultsOf(i) :
                      results[k].size = d.size /\ results[k].rotation = d.rotation

\* A frame with an array that has neither eye corners nor a full outline
\* (size 0.2 and rotation 0, no result) next to an array with eye corners and
\* without outline, which is returned with size 0.2.
C29_Witness ==
    /\ PDCalled
    /\ Len(currentFaces) = 2
    /\ Len(results) = 1
    /\ \E i, j \in 1..2 :
          /\ Landmarks(currentFaces[i]).length > 0
          /\ ~HasEyeCorners(Landmarks(currentFaces[i]))
          /\ ~HasOutline(Landmarks(currentFaces[i]))
          /\ Detection(currentFaces[i], i - 1).rotation = 0
          /\ Detection(currentFaces[i], i - 1).size = 200
          /\ ResultsOf(i) = {}
          /\ HasEyeCorners(Landmarks(currentFaces[j]))
          /\ ~HasOutline(Landmarks(currentFaces[j]))
          /\ ResultsOf(j) = {1}
          /\ results[1].size = 200

\* The results of the call whose track was created in it: their poses are raw.
NewResults ==
    {k \in 1..Len(results) :
        \E n \in 1..Len(trackedFaces) :
           /\ trackedFaces[n].faceId = results[k].faceId
           /\ trackedFaces[n].firstSeen = now}

\* C30: the raw pose of a detection is the mirror image, about the vertical
\* middle line of the canvas, of where its center lies in the displayed video:
\* a face in the left half of the frame is drawn in the right half, y is not
\* flipped, and the rotation is negated.  Two detections of a frame whose
\* centers are (x, y) and (1 - x, y) get pixel x values that add up to the
\* canvas width, i.e. symmetric about its middle, and the same pixel y.
C30_RawPoseMirrored ==
    PDCalled =>
       \A g \in MirrorGeometries :
          /\ \A k \in NewResults :
                /\ smoothFaces[k].x = g.cw * 1000
                      - (results[k].center[1] * CoverFit(g).width - CoverFit(g).offsetX)
                /\ results[k].center[1] < 500 => smoothFaces[k].x > g.cw * 500
                /\ results[k].center[1] > 500 => smoothFaces[k].x < g.cw * 500
                /\ smoothFaces[k].y
                      = results[k].center[2] * CoverFit(g).height - CoverFit(g).offsetY
                /\ smoothFaces[k].rotation = -(1000 * results[k].rotation)
          /\ \A j, k \in NewResults :
                (/\ results[j].center[1] + results[k].center[1] = 1000
                 /\ results[j].center[2] = results[k].center[2])
                => /\ smoothFaces[j].x + smoothFaces[k].x = g.cw * 1000
                   /\ smoothFaces[j].y = smoothFaces[k].y

\* Two new faces at (0.30, 0.40) and (0.70, 0.40), both tilted by 45 degrees,
\* on a canvas that crops the video: drawn at 820 and 180 of 1000 pixels, both
\* rotated by -45 degrees.
C30_Witness ==
    /\ PDCalled
    /\ Len(results) = 2
    /\ NewResults = {1, 2}
    /\ results[1].center = <<300, 400>>
    /\ results[2].center = <<700, 400>>
    /\ results[1].rotation = 45
    /\ results[2].rotation = 45
    /\ smoothFaces[1].x = 820000
    /\ smoothFaces[2].x = 180000
    /\ smoothFaces[1].y = smoothFaces[2].y
    /\ smoothFaces[1].rotation = -45000
    /\ smoothFaces[2].rotation = -45000

\* C31: for the geometry of every frame (all dimensions positive) the
\* displayed video is at least as wide and as high as the canvas rectangle
\* and equal to it in one dimension, it has the aspect ratio of the video,
\* and offsetX and offsetY are not negative, not both non-zero, and half of
\* the excess of the displayed video over the rectangle.
C31_CoverFitFillsAndCentres ==
    (PDCalled /\ geometry # Null) =>
       \E fit \in {CoverFit(geometry)} :
          /\ geometry.cw > 0 /\ geometry.ch > 0 /\ geometry.vw > 0 /\ geometry.vh > 0
          /\ fit.width >= geometry.cw
          /\ fit.height >= geometry.ch
          /\ fit.width = geometry.cw \/ fit.height = geometry.ch
          /\ fit.width * geometry.vh = fit.height * geometry.vw
          /\ fit.offsetX >= 0
          /\ fit.offsetY >= 0
          /\ fit.offsetX = 0 \/ fit.offsetY = 0
          /\ 2 * fit.offsetX = (fit.width - geometry.cw) * 1000
          /\ 2 * fit.offsetY = (fit.height - geometry.ch) * 1000

\* A face drawn on a canvas that is wider than the video: the width fills the
\* canvas and the displayed height is twice the canvas height, a quarter of it
\* cut off at the top and at the bottom.
C31_Witness ==
    /\ PDCalled
    /\ Len(smoothFaces) = 1
    /\ geometry # Null
    /\ geometry.cw * geometry.vh > geometry.vw * geometry.ch
    /\ CoverFit(geometry).width = geometry.cw
    /\ CoverFit(geometry).height = 2 * geometry.ch
    /\ 2 * CoverFit(geometry).offsetY = geometry.ch * 1000
    /\ smoothFaces[1].y
          = results[1].center[2] * CoverFit(geometry).height - CoverFit(geometry).offsetY

\* C32: between calls, every track in the registry has a framesMissing count
\* of at least 0 and at most maxFramesMissing.
C32_FramesMissingBounded ==
    \A i \in 1..Len(trackedFaces) :
       /\ trackedFaces[i].framesMissing >= 0
       /\ trackedFaces[i].framesMissing <= maxFramesMissing

\* After a call one track, matched in it, has count 0 and another one, seen
\* in the frames before and missed in this one, has count maxFramesMissing.
C32_Witness ==
    /\ PDCalled
    /\ Len(trackedFaces) = 2
    /\ \E i, j \in 1..2 :
          /\ trackedFaces[i].framesMissing = 0
          /\ trackedFaces[i].lastSeen = now
          /\ trackedFaces[j].framesMissing = maxFramesMissing
          /\ trackedFaces[j].firstSeen < trackedFaces[j].lastSeen
          /\ trackedFaces[j].lastSeen < now

\* C33: after a call with a non-empty input, every faceId in the returned list
\* belongs to a track of the registry whose framesMissing is 0 and whose
\* center, size and rotation are those of the last result with that faceId.
C33_ReturnedTracksFresh ==
    (PDCalled /\ currentFaces # << >>) =>
       \A k \in 1..Len(results) :
          (\A j \in 1..Len(results) : results[j].faceId = results[k].faceId => j <= k)
          => \E n \in 1..Len(trackedFaces) :
                /\ trackedFaces[n].faceId = results[k].faceId
                /\ trackedFaces[n].framesMissing = 0
                /\ trackedFaces[n].center = results[k].center
                /\ trackedFaces[n].size = results[k].size
                /\ trackedFaces[n].rotation = results[k].rotation

\* The distance of the two centers is matchThreshold or more.
FarApart(center1, center2) ==
    (center1[1] - center2[1]) * (center1[1] - center2[1])
      + (center1[2] - center2[2]) * (center1[2] - center2[2])
    >= matchThreshold * matchThreshold

\* C34: a detection never gets the faceId of a track whose center, at the
\* time the detection is handled, is matchThreshold or more away from the
\* detection's center, whatever the two sizes; and a single detection that is
\* that far from every track gets a new faceId.
C34_NoMatchBeyondThreshold ==
    [][PDStep =>
        /\ \A k \in 1..Len(results'), i \in 1..Len(trackedFaces) :
              (/\ FarApart(results'[k].center, trackedFaces[i].center)
               /\ \A j \in 1..(k - 1) : results'[j].faceId # trackedFaces[i].faceId)
              => results'[k].faceId # trackedFaces[i].faceId
        /\ (/\ Len(results') = 1
            /\ \A i \in 1..Len(trackedFaces) :
                  FarApart(results'[1].center, trackedFaces[i].center))
           => results'[1].faceId = nextFaceId]_vars

\* A face is detected exactly matchThreshold away from a track of the same
\* size: it is a new track, the old one is still there.
C34_Witness ==
    /\ PDCalled
    /\ Len(results) = 1
    /\ Len(trackedFaces) = 2
    /\ trackedFaces[2].faceId = results[1].faceId
    /\ trackedFaces[2].firstSeen = now
    /\ trackedFaces[1].firstSeen < now
    /\ trackedFaces[1].size = trackedFaces[2].size
    /\ Abs(trackedFaces[1].center[1] - trackedFaces[2].center[1]) = matchThreshold
    /\ trackedFaces[1].center[2] = trackedFaces[2].center[2]

\* C35: a track created for a detection can be matched by the later
\* detections of the same call.  On an empty registry, a call with two
\* detections whose score is above 0.6 creates one track, which ends the call
\* with the second detection's center, and returns two results with its
\* faceId and maskNumber; two detections that score 0.6 or less create two
\* tracks.
C35_NewTrackMatchedInSameCall ==
    [][(PDStep /\ trackedFaces = << >> /\ Len(results') = 2)
       => IF AboveSixTenths(results'[2], results'[1])
          THEN /\ results'[1].faceId = nextFaceId
               /\ results'[2].faceId = nextFaceId
               /\ results'[2].maskNumber = results'[1].maskNumber
               /\ nextFaceId' = nextFaceId + 1
               /\ Len(trackedFaces') = 1
               /\ trackedFaces'[1].faceId = nextFaceId
               /\ trackedFaces'[1].center = results'[2].center
          ELSE /\ results'[1].faceId = nextFaceId
               /\ results'[2].faceId = nextFaceId + 1
               /\ nextFaceId' = nextFaceId + 2
               /\ Len(trackedFaces') = 2]_vars

\* The first frame holds two different detections 0.01 apart: one track, two
\* results with its faceId.
C35_Witness ==
    /\ PDCalled
    /\ frameNo = 1
    /\ Len(currentFaces) = 2
    /\ Len(results) = 2
    /\ results[1].center # results[2].center
    /\ results[1].faceId = 1
    /\ results[2].faceId = 1
    /\ nextFaceId = 2
    /\ Len(trackedFaces) = 1
    /\ trackedFaces[1].firstSeen = now
    /\ trackedFaces[1].center = results[2].center

\* C36: a detection never gets the faceId of a track that, when the call
\* starts, was last seen more than maxFaceAge before the time of the call
\* (and has not been refreshed by an earlier detection of the call).
C36_StaleTrackNeverRevived ==
    [][PDStep =>
        \A k \in 1..Len(results'), i \in 1..Len(trackedFaces) :
           (/\ now' - trackedFaces[i].lastSeen > maxFaceAge
            /\ \A j \in 1..(k - 1) : results'[j].faceId # trackedFaces[i].faceId)
           => results'[k].faceId # trackedFaces[i].faceId]_vars

\* C37: every iteration of detectFaces, whether it ran the detector, was
\* skipped or threw, sets exactly one timeout for the next iteration; from
\* the start of the loop on exactly one timeout or one call of detectFaces is
\* pending at any time; and the loop never stalls: again and again a timeout
\* is pending and again and again a call is due, also after an iteration that
\* threw.
C37_LoopNeverStalls ==
    /\ [][Iterate => /\ pendingTimeouts' = pendingTimeouts + 1
                     /\ pendingFrames' = pendingFrames - 1]_vars
    /\ [](isModelLoaded => pendingTimeouts + pendingFrames = 1)
    /\ (isModelLoaded ~> (pendingFrames = 1))
    /\ (isModelLoaded ~> (pendingTimeouts = 1))
    /\ ((lastOp = "detectFaces threw") ~> (pendingFrames = 1))

\* A face is tracked, the last iteration threw, and the timeout for the next
\* iteration is pending.
C37_Witness ==
    /\ isModelLoaded
    /\ lastOp = "detectFaces threw"
    /\ Len(trackedFaces) = 1
    /\ Len(smoothFaces) = 1
    /\ pendingTimeouts = 1
    /\ pendingFrames = 0

\* C38: once capturePhoto has taken the screenshot, the result screen is
\* reached, whether the upload succeeds, fails or stays pending; a failed
\* upload sets the placeholder URL; a capture that fails returns to the camera
\* screen and sets no timeout for the result screen, which is only ever shown
\* with a captured image.
C38_ResultScreenAfterCapture ==
    /\ [][CaptureSucceeds => (capturedImage' # Null /\ resultTimers' = 1)]_vars
    /\ ((resultTimers = 1) ~> (currentScreen = "result"))
    /\ [][(\E n \in 1..MaxPhotos : UploadFails(n)) => firebaseUrl' = PlaceholderUrl]_vars
    /\ [][CaptureFails => (currentScreen' = "camera" /\ resultTimers' = 0)]_vars
    /\ [][currentScreen' = "result" => (currentScreen = "result" \/ resultTimers = 1)]_vars
    /\ [](currentScreen = "result" => capturedImage # Null)

\* The result screen is shown while the upload of the photo is still pending.
C38_Witness ==
    /\ currentScreen = "result"
    /\ capturedImage # Null
    /\ capturedImage[2] \in uploads
    /\ firebaseUrl = NoUrl

\* C39: a non-empty firebaseUrl shown on the result screen is the URL made by
\* the upload of the image held in capturedImage (the download URL of that
\* image, or the placeholder when that upload failed), never the URL of an
\* earlier photo.
C39_ShownUrlBelongsToShownImage ==
    (currentScreen = "result" /\ firebaseUrl # NoUrl)
        => /\ capturedImage # Null
           /\ firebaseUrl \in {DownloadUrl(capturedImage[2]), PlaceholderUrl}

====
